---- MODULE Spec2Model ----
(***************************************************************************)
(* A model of the AT-fuzz engine: the execution Monitor (virgin bitmaps,   *)
(* crash / hang deduplication), the energy Scheduler (a max-heap of seeds  *)
(* kept with heapq) and the Checkpoint layer (save / load of the engine).  *)
(*                                                                         *)
(* Bytes are naturals in 0..255, byte strings are sequences of bytes.      *)
(* Python's None is NoneVal; a value that may be None is Some(v).          *)
(* Python floats that the Scheduler computes are kept as exact rationals   *)
(* [num, den]; execution times are integers (milliseconds).                *)
(***************************************************************************)
EXTENDS Integers, Sequences, FiniteSets, TLC

(***************************************************************************)
(* Bounds of the model.                                                    *)
(***************************************************************************)
\* CONFIG['bitmap_size'] used by the model (the default is 65536).
BitmapSize == 2
\* Number of Monitor.process_execution calls explored.
MaxExecs == 3
\* Number of seeds pushed to the Scheduler.
MaxSeeds == 3
\* Number of successful pops of the Scheduler.
MaxPops == 5
\* Seeds and successful pops of the long runs of one Scheduler (SpecDecay).
MaxDecaySeeds == 1
MaxDecayPops == 500
\* Seeds and successful pops of one Scheduler whose seeds are fixed once the
\* first pop has happened (SpecStarve).
MaxStarveSeeds == 2
MaxStarvePops == 450
\* CONFIG['max_seeds'] and CONFIG['max_seeds_memory'] (in bytes) of the model.
max_seeds == 2
max_seeds_memory == 2
\* Number of executions and of successful pops of the whole engine.
MaxEngineExecs == 2
MaxEnginePops == 1

NoneVal == [some |-> FALSE, val |-> <<>>]
Some(v) == [some |-> TRUE, val |-> v]

\* Python truthiness of an Optional[bytes]: None and b'' are falsy.
Truthy(o) == o.some /\ Len(o.val) > 0

(***************************************************************************)
(* Bitwise operations on naturals, as Python's & ^ ~ and int.bit_count.    *)
(***************************************************************************)
RECURSIVE BitAnd(_, _)
BitAnd(a, b) ==
    IF a = 0 \/ b = 0 THEN 0
    ELSE (a % 2) * (b % 2) + 2 * BitAnd(a \div 2, b \div 2)

RECURSIVE BitXor(_, _)
BitXor(a, b) ==
    IF a = 0 THEN b
    ELSE IF b = 0 THEN a
    ELSE (((a % 2) + (b % 2)) % 2) + 2 * BitXor(a \div 2, b \div 2)

RECURSIVE bit_count(_)
bit_count(a) == IF a = 0 THEN 0 ELSE (a % 2) + bit_count(a \div 2)

\* Mutants of AndNot: the complement forgotten (v & b), and ^= in place of &= ~.
AndNot_NoComplement(v, b) == BitAnd(v, b)
AndNot_Xor(v, b) == BitXor(v, b)

\* v & ~b for a byte v: ~b is -b-1, whose low eight bits are 255 - b.
AndNot(v, b) == BitAnd(v, 255 - b)

RECURSIVE SumSeq(_)
SumSeq(s) == IF s = <<>> THEN 0 ELSE Head(s) + SumSeq(Tail(s))

(***************************************************************************)
(* Monitor: pure helpers.                                                  *)
(***************************************************************************)
SIMPLIFY_LOOKUP == [b \in 0..255 |-> IF b = 0 THEN 1 ELSE 128]

\* Mutant of simplify_trace: the trace is used as it is.
simplify_trace_Raw(trace) == trace

simplify_trace(trace) == [i \in 1..Len(trace) |-> SIMPLIFY_LOOKUP[trace[i]]]

\* Mutant of CoverageBits: the bits still virgin are counted.
CoverageBits_Virgin(virgin) ==
    SumSeq([i \in 1..Len(virgin) |-> bit_count(virgin[i])])

\* sum((0xFF ^ b).bit_count() for b in virgin)
CoverageBits(virgin) ==
    SumSeq([i \in 1..Len(virgin) |-> bit_count(BitXor(255, virgin[i]))])

\* The loop of _has_new_bits over trace[1..n], started with (has_new, virgin).
RECURSIVE HasNewLoop(_, _, _, _)
HasNewLoop(trace, i, has_new, virgin) ==
    IF i > Len(trace) THEN [has_new |-> has_new, virgin |-> virgin]
    ELSE IF trace[i] # 0 /\ BitAnd(virgin[i], trace[i]) # 0
         THEN HasNewLoop(trace, i + 1, TRUE,
                         [virgin EXCEPT ![i] = AndNot(virgin[i], trace[i])])
         ELSE HasNewLoop(trace, i + 1, has_new, virgin)

\* _has_new_bits(trace, virgin) for a virgin map that may be None: the value
\* returned and the virgin map after the call.
has_new_bits(trace, virgin) ==
    IF ~virgin.some THEN [has_new |-> FALSE, virgin |-> virgin]
    ELSE LET r == HasNewLoop(trace, 1, FALSE, virgin.val)
         IN  [has_new |-> r.has_new, virgin |-> Some(r.virgin)]

\* _compute_hash: BLAKE2s-64 of the data.  The model keeps an injective
\* number for each byte string (base-257 digits b+1), so two keys are equal
\* exactly when the data are equal; digest collisions are outside the model.
RECURSIVE compute_hash(_)
compute_hash(data) ==
    IF data = <<>> THEN 0 ELSE (Head(data) + 1) + 257 * compute_hash(Tail(data))

(***************************************************************************)
(* Inputs of the Monitor.                                                  *)
(***************************************************************************)
\* A coverage bitmap read from shared memory has bitmap_size bytes.
Pad(t) == [i \in 1..BitmapSize |-> IF i <= Len(t) THEN t[i] ELSE 0]
Traces == { Pad(<<1>>), Pad(<<3>>), Pad(<<0, 128>>) }
Inputs == { <<65>>, <<66>> }
Stderrs == { <<>>, <<83>> }

\* Results with both flags set are handed to the Monitor too: it takes any
\* result dictionary, and the order of its tests decides their class.
ExecResults ==
    [ crashed : BOOLEAN, timeout : BOOLEAN,
      coverage : {NoneVal} \cup {Some(t) : t \in Traces},
      stderr : Stderrs ]

\* The (input, result) pairs handed to the Monitor.
MonitorCalls ==
    { c \in [input : Inputs, res : ExecResults] :
        c.res.stderr # <<>> => c.input = <<66>> }

\* return_code of a result as the Executor sets it: a signal for a crash,
\* -1 for a timeout, 0 otherwise.
ReturnCode(res) == IF res.crashed THEN 0 - 11 ELSE IF res.timeout THEN 0 - 1 ELSE 0

Abs(x) == IF x < 0 THEN 0 - x ELSE x

VARIABLES
    use_coverage,   \* ExecutionMonitor.use_coverage
    virgin_bits,    \* Optional bytearray
    virgin_crash,
    virgin_tmout,
    crash_hashes,   \* ExecutionMonitor._crash_hashes
    hang_hashes,    \* ExecutionMonitor._hang_hashes
    stats,          \* MonitorStats (without the start_time string)
    crash_files,    \* names written under crashes/: [id, sig]
    hang_files,     \* names written under hangs/: exec ids
    queue_files,    \* names written under queue/: exec ids (reason new_coverage)
    call            \* the last process_execution call: its arguments and result

monVars == << use_coverage, virgin_bits, virgin_crash, virgin_tmout, crash_hashes,
              hang_hashes, stats, crash_files, hang_files, queue_files, call >>

NoCall == [ op |-> "none", input |-> <<>>, crashed |-> FALSE, timeout |-> FALSE,
            coverage |-> NoneVal, stderr |-> <<>>, ret |-> FALSE ]

FreshBitmap == [i \in 1..BitmapSize |-> 255]

MonitorStats0 ==
    [ total_execs |-> 0, total_crashes |-> 0, total_hangs |-> 0,
      saved_crashes |-> 0, saved_hangs |-> 0, interesting_inputs |-> 0,
      total_coverage_bits |-> 0 ]

\* ExecutionMonitor.__init__
MonitorInit ==
    /\ use_coverage \in BOOLEAN
    /\ virgin_bits = IF use_coverage THEN Some(FreshBitmap) ELSE NoneVal
    /\ virgin_crash = IF use_coverage THEN Some(FreshBitmap) ELSE NoneVal
    /\ virgin_tmout = IF use_coverage THEN Some(FreshBitmap) ELSE NoneVal
    /\ crash_hashes = {}
    /\ hang_hashes = {}
    /\ stats = MonitorStats0
    /\ crash_files = {}
    /\ hang_files = {}
    /\ queue_files = {}
    /\ call = NoCall

(***************************************************************************)
(* Monitor: the handlers.  Each takes the state it reads and returns the   *)
(* value returned by the method together with the fields it assigns.       *)
(***************************************************************************)
\* Mutant of CountHang: the wrong counter is incremented.
CountHang_Saved(st) == [st EXCEPT !.saved_hangs = @ + 1]

\* self.stats.total_crashes += 1 and self.stats.saved_crashes += 1
CountCrash(st) == [st EXCEPT !.total_crashes = @ + 1]
CountSavedCrash(st) == [st EXCEPT !.saved_crashes = @ + 1]
\* self.stats.total_hangs += 1 and self.stats.saved_hangs += 1
CountHang(st) == [st EXCEPT !.total_hangs = @ + 1]
CountSavedHang(st) == [st EXCEPT !.saved_hangs = @ + 1]

\* Mutant of handle_crash: the fallback key is that of _handle_hang.
handle_crash_InputKey(input, res, st) ==
    LET st1 == CountCrash(st)
        coverage == res.coverage
        saved(vc, hs) ==
            [ ret |-> TRUE,
              stats |-> CountSavedCrash(st1),
              virgin_crash |-> vc, crash_hashes |-> hs,
              crash_files |-> crash_files \cup
                  { [id |-> st1.total_execs, sig |-> Abs(ReturnCode(res))] } ]
        dropped(vc) ==
            [ ret |-> FALSE, stats |-> st1, virgin_crash |-> vc,
              crash_hashes |-> crash_hashes, crash_files |-> crash_files ]
    IN  IF virgin_crash.some /\ Truthy(coverage)
        THEN LET r == has_new_bits(simplify_trace(coverage.val), virgin_crash)
             IN  IF ~r.has_new THEN dropped(r.virgin)
                 ELSE saved(r.virgin, crash_hashes)
        ELSE LET data_to_hash ==
                     IF Truthy(coverage) THEN coverage.val
                     ELSE input
                 crash_hash == compute_hash(data_to_hash)
             IN  IF crash_hash \in crash_hashes THEN dropped(virgin_crash)
                 ELSE saved(virgin_crash, crash_hashes \cup {crash_hash})

\* _handle_crash, called with stats already counting this execution.
handle_crash(input, res, st) ==
    LET st1 == CountCrash(st)
        coverage == res.coverage
        saved(vc, hs) ==
            [ ret |-> TRUE,
              stats |-> CountSavedCrash(st1),
              virgin_crash |-> vc, crash_hashes |-> hs,
              crash_files |-> crash_files \cup
                  { [id |-> st1.total_execs, sig |-> Abs(ReturnCode(res))] } ]
        dropped(vc) ==
            [ ret |-> FALSE, stats |-> st1, virgin_crash |-> vc,
              crash_hashes |-> crash_hashes, crash_files |-> crash_files ]
    IN  IF virgin_crash.some /\ Truthy(coverage)
        THEN LET r == has_new_bits(simplify_trace(coverage.val), virgin_crash)
             IN  IF ~r.has_new THEN dropped(r.virgin)
                 ELSE saved(r.virgin, crash_hashes)
        ELSE LET data_to_hash ==
                     IF Truthy(coverage) THEN coverage.val
                     ELSE IF Len(res.stderr) > 0 THEN res.stderr ELSE input
                 crash_hash == compute_hash(data_to_hash)
             IN  IF crash_hash \in crash_hashes THEN dropped(virgin_crash)
                 ELSE saved(virgin_crash, crash_hashes \cup {crash_hash})

\* Mutant of handle_hang: the fallback key is that of _handle_crash.
handle_hang_CrashKey(input, res, st) ==
    LET st1 == CountHang(st)
        coverage == res.coverage
        saved(vt, hs) ==
            [ ret |-> TRUE,
              stats |-> CountSavedHang(st1),
              virgin_tmout |-> vt, hang_hashes |-> hs,
              hang_files |-> hang_files \cup { st1.total_execs } ]
        dropped(vt) ==
            [ ret |-> FALSE, stats |-> st1, virgin_tmout |-> vt,
              hang_hashes |-> hang_hashes, hang_files |-> hang_files ]
    IN  IF virgin_tmout.some /\ Truthy(coverage)
        THEN LET r == has_new_bits(simplify_trace(coverage.val), virgin_tmout)
             IN  IF ~r.has_new THEN dropped(r.virgin)
                 ELSE saved(r.virgin, hang_hashes)
        ELSE LET data_to_hash ==
                     IF Truthy(coverage) THEN coverage.val
                     ELSE IF Len(res.stderr) > 0 THEN res.stderr ELSE input
                 hang_hash == compute_hash(data_to_hash)
             IN  IF hang_hash \in hang_hashes THEN dropped(virgin_tmout)
                 ELSE saved(virgin_tmout, hang_hashes \cup {hang_hash})

\* _handle_hang, called with stats already counting this execution.
handle_hang(input, res, st) ==
    LET st1 == CountHang(st)
        coverage == res.coverage
        saved(vt, hs) ==
            [ ret |-> TRUE,
              stats |-> CountSavedHang(st1),
              virgin_tmout |-> vt, hang_hashes |-> hs,
              hang_files |-> hang_files \cup { st1.total_execs } ]
        dropped(vt) ==
            [ ret |-> FALSE, stats |-> st1, virgin_tmout |-> vt,
              hang_hashes |-> hang_hashes, hang_files |-> hang_files ]
    IN  IF virgin_tmout.some /\ Truthy(coverage)
        THEN LET r == has_new_bits(simplify_trace(coverage.val), virgin_tmout)
             IN  IF ~r.has_new THEN dropped(r.virgin)
                 ELSE saved(r.virgin, hang_hashes)
        ELSE LET data_to_hash == IF Truthy(coverage) THEN coverage.val ELSE input
                 hang_hash == compute_hash(data_to_hash)
             IN  IF hang_hash \in hang_hashes THEN dropped(virgin_tmout)
                 ELSE saved(virgin_tmout, hang_hashes \cup {hang_hash})

\* Mutant of handle_normal: _save_interesting does not count the input.
handle_normal_Uncounted(input, res, st) ==
    LET coverage == res.coverage
        r == has_new_bits(coverage.val, virgin_bits)
    IN  IF Truthy(coverage) /\ r.has_new
        THEN [ ret |-> TRUE,
               stats |-> [st EXCEPT
                   !.total_coverage_bits = CoverageBits(r.virgin.val)],
               virgin_bits |-> r.virgin,
               queue_files |-> queue_files \cup { st.total_execs } ]
        ELSE [ ret |-> FALSE, stats |-> st, virgin_bits |-> virgin_bits,
               queue_files |-> queue_files ]

\* The normal-execution branch of process_execution (use_coverage is set):
\* _has_new_bits against virgin_bits, which also recomputes
\* total_coverage_bits, then _save_interesting.
handle_normal(input, res, st) ==
    LET coverage == res.coverage
        r == has_new_bits(coverage.val, virgin_bits)
    IN  IF Truthy(coverage) /\ r.has_new
        THEN [ ret |-> TRUE,
               stats |-> [st EXCEPT
                   !.total_coverage_bits = CoverageBits(r.virgin.val),
                   !.interesting_inputs = @ + 1],
               virgin_bits |-> r.virgin,
               queue_files |-> queue_files \cup { st.total_execs } ]
        ELSE [ ret |-> FALSE, stats |-> st, virgin_bits |-> virgin_bits,
               queue_files |-> queue_files ]

\* Mutant of Classify: the timeout test comes first.
Classify_TimeoutFirst(res) ==
    IF res.timeout THEN "timeout" ELSE IF res.crashed THEN "crash" ELSE "normal"

\* The class process_execution gives a result: its if / elif chain tests
\* crashed first, then timeout.
Classify(res) ==
    IF res.crashed THEN "crash" ELSE IF res.timeout THEN "timeout" ELSE "normal"

CallOf(input, res, ret) ==
    [ op |-> "process", input |-> input, crashed |-> res.crashed,
      timeout |-> res.timeout, coverage |-> res.coverage, stderr |-> res.stderr,
      ret |-> ret ]

\* ExecutionMonitor.process_execution(input_data, exec_result)
process_execution(input, res) ==
    LET st == [stats EXCEPT !.total_execs = @ + 1]
    IN  /\ UNCHANGED use_coverage
        /\ IF Classify(res) = "crash"
           THEN LET h == handle_crash(input, res, st)
                IN  /\ stats' = h.stats
                    /\ virgin_crash' = h.virgin_crash
                    /\ crash_hashes' = h.crash_hashes
                    /\ crash_files' = h.crash_files
                    /\ call' = CallOf(input, res, h.ret)
                    /\ UNCHANGED << virgin_bits, virgin_tmout, hang_hashes,
                                    hang_files, queue_files >>
           ELSE IF Classify(res) = "timeout"
           THEN LET h == handle_hang(input, res, st)
                IN  /\ stats' = h.stats
                    /\ virgin_tmout' = h.virgin_tmout
                    /\ hang_hashes' = h.hang_hashes
                    /\ hang_files' = h.hang_files
                    /\ call' = CallOf(input, res, h.ret)
                    /\ UNCHANGED << virgin_bits, virgin_crash, crash_hashes,
                                    crash_files, queue_files >>
           ELSE IF use_coverage
           THEN LET h == handle_normal(input, res, st)
                IN  /\ stats' = h.stats
                    /\ virgin_bits' = h.virgin_bits
                    /\ queue_files' = h.queue_files
                    /\ call' = CallOf(input, res, h.ret)
                    /\ UNCHANGED << virgin_crash, virgin_tmout, crash_hashes,
                                    hang_hashes, crash_files, hang_files >>
           ELSE /\ stats' = st
                /\ call' = CallOf(input, res, FALSE)
                /\ UNCHANGED << virgin_bits, virgin_crash, virgin_tmout,
                                crash_hashes, hang_hashes, crash_files,
                                hang_files, queue_files >>


(***************************************************************************)
(* Scheduler.  Energies are exact rationals [num, den] with den > 0.       *)
(***************************************************************************)
Rat(n, d) == [num |-> n, den |-> d]
RatLess(a, b) == a.num * b.den < b.num * a.den
RatEq(a, b) == a.num * b.den = b.num * a.den
RatLeq(a, b) == a.num * b.den <= b.num * a.den
\* r * (a / b)
RatMul(r, a, b) == Rat(r.num * a, r.den * b)

\* Mutant of SeedLess: the energy is not negated, which makes a min-heap.
SeedLess_MinHeap(a, b) == RatLess(a.energy, b.energy)

\* Seed.__lt__ (dataclass order=True over sort_index = -energy alone):
\* a < b exactly when a has the larger energy.
SeedLess(a, b) == RatLess(b.energy, a.energy)

\* heapq._siftdown(heap, startpos, pos); positions are 0-based as in heapq.
RECURSIVE SiftDownLoop(_, _, _, _)
SiftDownLoop(heap, startpos, pos, newitem) ==
    IF pos > startpos
    THEN LET parentpos == (pos - 1) \div 2
             parent == heap[parentpos + 1]
         IN  IF SeedLess(newitem, parent)
             THEN SiftDownLoop([heap EXCEPT ![pos + 1] = parent],
                               startpos, parentpos, newitem)
             ELSE [heap EXCEPT ![pos + 1] = newitem]
    ELSE [heap EXCEPT ![pos + 1] = newitem]

siftdown(heap, startpos, pos) == SiftDownLoop(heap, startpos, pos, heap[pos + 1])

\* heapq._siftup(heap, pos)
RECURSIVE SiftUpLoop(_, _, _, _, _)
SiftUpLoop(heap, startpos, pos, childpos, newitem) ==
    IF childpos < Len(heap)
    THEN LET rightpos == childpos + 1
             c == IF rightpos < Len(heap)
                     /\ ~SeedLess(heap[childpos + 1], heap[rightpos + 1])
                  THEN rightpos ELSE childpos
         IN  SiftUpLoop([heap EXCEPT ![pos + 1] = heap[c + 1]],
                        startpos, c, 2 * c + 1, newitem)
    ELSE siftdown([heap EXCEPT ![pos + 1] = newitem], startpos, pos)

siftup(heap, pos) == SiftUpLoop(heap, pos, pos, 2 * pos + 1, heap[pos + 1])

\* heapq.heappush(heap, item)
heappush(heap, item) == siftdown(Append(heap, item), 0, Len(heap))

\* heapq.heappop(heap) on a non-empty heap: the item returned and the heap left.
heappop(heap) ==
    LET lastelt == heap[Len(heap)]
        rest == SubSeq(heap, 1, Len(heap) - 1)
    IN  IF rest # <<>>
        THEN [item |-> rest[1], heap |-> siftup([rest EXCEPT ![1] = lastelt], 0)]
        ELSE [item |-> lastelt, heap |-> rest]

\* The speed band of _calculate_energy: exec_time t against the average
\* tt / d (float products such as t * 0.25 > avg are compared exactly).
SpeedScore(t, tt, d) ==
    IF ~(tt > 0) THEN 100
    ELSE IF t * d > 10 * tt THEN 10
    ELSE IF t * d > 4 * tt THEN 25
    ELSE IF t * d > 2 * tt THEN 50
    ELSE IF 3 * t * d > 4 * tt THEN 75
    ELSE IF 4 * t * d < tt THEN 300
    ELSE IF 3 * t * d < tt THEN 200
    ELSE IF 2 * t * d < tt THEN 150
    ELSE 100

\* The coverage band of _calculate_energy applied to a score.
CoverageScore(score, c, tc, d) ==
    IF ~(tc > 0) THEN score
    ELSE IF 3 * c * d > 10 * tc THEN RatMul(score, 3, 1)
    ELSE IF c * d > 2 * tc THEN RatMul(score, 2, 1)
    ELSE IF 3 * c * d > 4 * tc THEN RatMul(score, 3, 2)
    ELSE IF 3 * c * d < tc THEN RatMul(score, 1, 4)
    ELSE IF 2 * c * d < tc THEN RatMul(score, 1, 2)
    ELSE IF 3 * c * d < 2 * tc THEN RatMul(score, 3, 4)
    ELSE score

\* Mutant of Decay: the score does not depend on exec_count.
Decay_None(score, exec_count) == score

\* Mutant of Decay: the score is multiplied by the factor.
Decay_Grow(score, exec_count) ==
    IF exec_count > 0 THEN RatMul(score, 5 + exec_count, 5) ELSE score

\* perf_score /= 1.0 + 0.2 * exec_count, when exec_count > 0
Decay(score, exec_count) ==
    IF exec_count > 0 THEN RatMul(score, 5, 5 + exec_count) ELSE score

\* perf_score = min(perf_score, 10000.0)
Clamp(score) == IF RatLess(Rat(10000, 1), score) THEN Rat(10000, 1) ELSE score

\* _calculate_energy(seed) with len(self.seeds) = num_seeds and the totals
\* given: the energy it stores in the seed.
calculate_energy(seed, num_seeds, tet, tcov) ==
    LET d == IF num_seeds = 0 THEN 1 ELSE num_seeds + 1
        tt == IF num_seeds = 0 THEN seed.exec_time ELSE tet
        tc == IF num_seeds = 0 THEN seed.coverage_bits ELSE tcov
        speed == Rat(SpeedScore(seed.exec_time, tt, d), 1)
        cov == CoverageScore(speed, seed.coverage_bits, tc, d)
    IN  Clamp(Decay(cov, seed.exec_count))

\* What a push hands to the Scheduler: data, coverage_bits, exec_time.
SeedInputs ==
    { [data |-> <<65>>, coverage_bits |-> 10, exec_time |-> 1],
      [data |-> <<66>>, coverage_bits |-> 0, exec_time |-> 100],
      [data |-> <<65>>, coverage_bits |-> 10, exec_time |-> 100],
      [data |-> <<>>, coverage_bits |-> 0, exec_time |-> 100] }

VARIABLES
    seeds,            \* SeedScheduler.seeds, the heapq list
    total_exec_time,  \* SeedScheduler.total_exec_time
    total_coverage,   \* SeedScheduler.total_coverage
    sched_call,       \* the last Scheduler call and the seed it returned
    calc              \* history: for each seed (by id) the number of seeds and
                      \* the totals its stored energy was computed with

schedVars == << seeds, total_exec_time, total_coverage, sched_call, calc >>

NoSeed == [ id |-> 0, data |-> <<>>, exec_count |-> 0, coverage_bits |-> 0,
            exec_time |-> 0, energy |-> Rat(1, 1) ]
NoSeedRet == [some |-> FALSE, val |-> NoSeed]

\* A Scheduler call: the seed returned and, for a pop, the seed as it was
\* before the pop and the number of other seeds its energy had last been
\* computed with.
SchedCall(op, ret, prev, prev_n) ==
    [ op |-> op, ret |-> ret, prev |-> prev, prev_n |-> prev_n ]

\* SeedScheduler.__init__
SchedulerInit ==
    /\ seeds = <<>>
    /\ total_exec_time = 0
    /\ total_coverage = 0
    /\ sched_call = SchedCall("none", NoSeedRet, NoSeed, 0)
    /\ calc = <<>>

\* SeedScheduler.add_seed(seed_data, coverage_bits, exec_time).  The id of a
\* seed is the identity of the Seed object: the number of seeds made so far.
add_seed(seed_data, coverage_bits, exec_time) ==
    LET seed == [ id |-> Len(calc) + 1, data |-> seed_data, exec_count |-> 0,
                  coverage_bits |-> coverage_bits, exec_time |-> exec_time,
                  energy |-> Rat(1, 1) ]
        tet == total_exec_time + exec_time
        tcov == total_coverage + coverage_bits
        e == calculate_energy(seed, Len(seeds), tet, tcov)
    IN  /\ total_exec_time' = tet
        /\ total_coverage' = tcov
        /\ seeds' = heappush(seeds, [seed EXCEPT !.energy = e])
        /\ calc' = Append(calc, [n |-> Len(seeds), tet |-> tet, tcov |-> tcov])
        /\ sched_call' = SchedCall("add_seed", NoSeedRet, NoSeed, 0)

\* Mutant of Reselect: the energy is computed before exec_count is incremented.
Reselect_Stale(item, num_seeds, tet, tcov) ==
    [item EXCEPT !.exec_count = @ + 1,
                 !.energy = calculate_energy(item, num_seeds, tet, tcov)]

\* seed.exec_count += 1 ; self._calculate_energy(seed) on the popped seed
Reselect(item, num_seeds, tet, tcov) ==
    LET s1 == [item EXCEPT !.exec_count = @ + 1]
    IN  [s1 EXCEPT !.energy = calculate_energy(s1, num_seeds, tet, tcov)]

\* SeedScheduler.select_next()
select_next ==
    IF seeds = <<>>
    THEN /\ sched_call' = SchedCall("select_next", NoSeedRet, NoSeed, 0)
         /\ UNCHANGED << seeds, total_exec_time, total_coverage, calc >>
    ELSE LET p == heappop(seeds)
             s2 == Reselect(p.item, Len(p.heap), total_exec_time, total_coverage)
         IN  /\ seeds' = heappush(p.heap, s2)
             /\ calc' = [calc EXCEPT ![s2.id] =
                            [n |-> Len(p.heap), tet |-> total_exec_time,
                             tcov |-> total_coverage]]
             /\ sched_call' = SchedCall("select_next", Some(s2), p.item,
                                        calc[p.item.id].n)
             /\ UNCHANGED << total_exec_time, total_coverage >>

\* Sum of exec_count over the seeds held: the number of successful pops.
RECURSIVE SumExecCount(_)
SumExecCount(h) == IF h = <<>> THEN 0 ELSE Head(h).exec_count + SumExecCount(Tail(h))

(***************************************************************************)
(* Checkpoint: base64 and the checkpoint file.                             *)
(***************************************************************************)
\* A base64 text is a sequence of digits 0..63 and of the padding sign.
B64Pad == 64

\* base64.b64encode(data)
RECURSIVE b64encode(_)
b64encode(data) ==
    IF Len(data) = 0 THEN <<>>
    ELSE IF Len(data) = 1
    THEN << data[1] \div 4, (data[1] % 4) * 16, B64Pad, B64Pad >>
    ELSE IF Len(data) = 2
    THEN << data[1] \div 4, (data[1] % 4) * 16 + (data[2] \div 16),
            (data[2] % 16) * 4, B64Pad >>
    ELSE << data[1] \div 4, (data[1] % 4) * 16 + (data[2] \div 16),
            (data[2] % 16) * 4 + (data[3] \div 64), data[3] % 64 >>
         \o b64encode(SubSeq(data, 4, Len(data)))

\* base64.b64decode(text) for a well-formed text
RECURSIVE b64decode(_)
b64decode(text) ==
    IF Len(text) < 4 THEN <<>>
    ELSE LET b1 == text[1] * 4 + (text[2] \div 16)
             b2 == (text[2] % 16) * 16 + (text[3] \div 4)
             b3 == (text[3] % 4) * 64 + text[4]
         IN  IF text[3] = B64Pad THEN << b1 >>
             ELSE IF text[4] = B64Pad THEN << b1, b2 >>
             ELSE << b1, b2, b3 >> \o b64decode(SubSeq(text, 5, Len(text)))

CHECKPOINT_VERSION == 2

VARIABLES
    strategy,         \* scheduler.strategy as the checkpoint reads and sets it
    total_memory,     \* scheduler.total_memory
    fifo_index,       \* scheduler.fifo_index
    runtime,          \* fuzzer.start_time, last_snapshot_time, last_coverage, last_execs
    now,              \* time.time(), in whole seconds
    ckpt,             \* checkpoint.json: NoFile or the state written by save
    at_save,          \* history: the engine as it was at the last save
    eng_call,         \* the last engine operation and what it returned
    CONFIG            \* the global CONFIG, by its key 'timeout' (seconds)

engVars == << strategy, total_memory, fifo_index, runtime, now, ckpt, at_save, eng_call,
              CONFIG >>

\* DEFAULT_CONFIG['timeout'].
DefaultTimeout == 1

NoFile == [some |-> FALSE]

\* An engine operation: what it returned and, for a load, whether the
\* Monitor counters of the engine differed from the ones in the file.
EngCall(op, ret, differed) == [ op |-> op, ret |-> ret, differed |-> differed ]

\* CONFIG['max_seed_size'] and CONFIG['log_interval'] of the model.
MaxSeedSize == 2
LogInterval == 2

\* Fuzzer.__init__ (no resume): the runtime anchors and an empty checkpoint
\* directory.
EngineInit ==
    /\ strategy = "energy"
    /\ total_memory = 0
    /\ fifo_index = 0
    /\ now = 0
    /\ runtime = [ start_time |-> 0, last_snapshot_time |-> 0,
                   last_coverage |-> 0, last_execs |-> 0 ]
    /\ ckpt = NoFile
    /\ at_save = [ some |-> FALSE ]
    /\ eng_call = EngCall("none", FALSE, FALSE)
    /\ CONFIG = [ timeout |-> DefaultTimeout, max_seed_size |-> MaxSeedSize ]


\* An Optional bitmap as save writes it: base64 text, or null.
EncodeBitmap(v) == IF v.some THEN Some(b64encode(v.val)) ELSE NoneVal

\* One entry of the checkpoint's seed list.
EncodeSeed(s) ==
    [ data |-> b64encode(s.data), exec_count |-> s.exec_count,
      coverage_bits |-> s.coverage_bits, exec_time |-> s.exec_time,
      energy |-> s.energy ]

\* The document CheckpointManager.save builds from the engine.
CheckpointState ==
    [ some |-> TRUE,
      version |-> CHECKPOINT_VERSION,
      config |-> CONFIG,
      runtime |-> runtime,
      monitor |->
          [ stats |-> [ total_execs |-> stats.total_execs,
                        total_crashes |-> stats.total_crashes,
                        total_hangs |-> stats.total_hangs,
                        saved_crashes |-> stats.saved_crashes,
                        saved_hangs |-> stats.saved_hangs,
                        interesting_inputs |-> stats.interesting_inputs ],
            virgin_bits |-> EncodeBitmap(virgin_bits),
            virgin_crash |-> EncodeBitmap(virgin_crash),
            virgin_tmout |-> EncodeBitmap(virgin_tmout) ],
      scheduler |->
          [ strategy |-> strategy,
            seeds |-> [i \in 1..Len(seeds) |-> EncodeSeed(seeds[i])],
            total_exec_time |-> total_exec_time,
            total_coverage |-> total_coverage,
            total_memory |-> total_memory,
            fifo_index |-> fifo_index ] ]

\* CheckpointManager.save(checkpoint_dir, fuzzer)
save ==
    /\ ckpt' = CheckpointState
    /\ at_save' = [ some |-> TRUE, stats |-> stats, virgin_bits |-> virgin_bits,
                    virgin_crash |-> virgin_crash, virgin_tmout |-> virgin_tmout,
                    seeds |-> seeds ]
    /\ eng_call' = EngCall("save", TRUE, FALSE)
    /\ UNCHANGED << monVars, schedVars, strategy, total_memory, fifo_index,
                    runtime, now, CONFIG >>

\* Mutant of LoadBitmap: the bitmap of the checkpoint is never taken.
LoadBitmap_KeepOwn(text, own) == own

\* The bitmap load leaves in a field: the decoded one when the checkpoint
\* holds a non-empty text for it, the engine's own otherwise.
LoadBitmap(text, own) == IF Truthy(text) THEN Some(b64decode(text.val)) ELSE own

\* The loop of load over the seed list: each entry becomes a new Seed that is
\* appended (fifo) or pushed on the heap.
RECURSIVE LoadSeeds(_, _, _, _)
LoadSeeds(entries, i, strat, heap) ==
    IF i > Len(entries) THEN heap
    ELSE LET s == entries[i]
             seed == [ id |-> i, data |-> b64decode(s.data),
                       exec_count |-> s.exec_count,
                       coverage_bits |-> s.coverage_bits,
                       exec_time |-> s.exec_time, energy |-> s.energy ]
         IN  LoadSeeds(entries, i + 1, strat,
                       IF strat = "fifo" THEN Append(heap, seed)
                       ELSE heappush(heap, seed))

\* CheckpointManager.load(checkpoint_path, fuzzer) read at time t.
\* Mutant of load: the version of the file is not looked at.
load_AnyVersion(t) ==
    IF ~ckpt.some
    THEN /\ eng_call' = EngCall("load", FALSE, FALSE)
         /\ UNCHANGED << monVars, schedVars, strategy, total_memory, fifo_index,
                         runtime, now, ckpt, at_save, CONFIG >>
    ELSE LET previous_duration ==
                 ckpt.runtime.last_snapshot_time - ckpt.runtime.start_time
             m == ckpt.monitor
             sc == ckpt.scheduler
             vb == IF use_coverage THEN LoadBitmap(m.virgin_bits, virgin_bits)
                   ELSE virgin_bits
             loaded == LoadSeeds(sc.seeds, 1, sc.strategy, <<>>)
         IN  /\ runtime' = [ start_time |-> t - previous_duration,
                             last_snapshot_time |-> t,
                             last_coverage |-> ckpt.runtime.last_coverage,
                             last_execs |-> ckpt.runtime.last_execs ]
             /\ stats' = [ total_execs |-> m.stats.total_execs,
                           total_crashes |-> m.stats.total_crashes,
                           total_hangs |-> m.stats.total_hangs,
                           saved_crashes |-> m.stats.saved_crashes,
                           saved_hangs |-> m.stats.saved_hangs,
                           interesting_inputs |-> m.stats.interesting_inputs,
                           total_coverage_bits |->
                               IF use_coverage THEN CoverageBits(vb.val)
                               ELSE stats.total_coverage_bits ]
             /\ virgin_bits' = vb
             /\ virgin_crash' = IF use_coverage
                                THEN LoadBitmap(m.virgin_crash, virgin_crash)
                                ELSE virgin_crash
             /\ virgin_tmout' = IF use_coverage
                                THEN LoadBitmap(m.virgin_tmout, virgin_tmout)
                                ELSE virgin_tmout
             /\ CONFIG' = ckpt.config
             /\ strategy' = sc.strategy
             /\ total_exec_time' = sc.total_exec_time
             /\ total_coverage' = sc.total_coverage
             /\ total_memory' = SumSeq([i \in 1..Len(loaded) |-> Len(loaded[i].data)])
             /\ fifo_index' = sc.fifo_index
             /\ seeds' = loaded
             /\ calc' = [i \in 1..Len(loaded) |-> [n |-> 0 - 1, tet |-> 0, tcov |-> 0]]
             /\ eng_call' = EngCall("load", TRUE,
                    \E f \in DOMAIN m.stats : m.stats[f] # stats[f])
             /\ UNCHANGED << use_coverage, crash_hashes, hang_hashes, crash_files,
                             hang_files, queue_files, call, sched_call, now, ckpt,
                             at_save >>

load(t) ==
    IF ~ckpt.some \/ ckpt.version < 1 \/ ckpt.version > CHECKPOINT_VERSION
    THEN /\ eng_call' = EngCall("load", FALSE, FALSE)
         /\ UNCHANGED << monVars, schedVars, strategy, total_memory, fifo_index,
                         runtime, now, ckpt, at_save, CONFIG >>
    ELSE LET previous_duration ==
                 ckpt.runtime.last_snapshot_time - ckpt.runtime.start_time
             m == ckpt.monitor
             sc == ckpt.scheduler
             vb == IF use_coverage THEN LoadBitmap(m.virgin_bits, virgin_bits)
                   ELSE virgin_bits
             loaded == LoadSeeds(sc.seeds, 1, sc.strategy, <<>>)
         IN  /\ runtime' = [ start_time |-> t - previous_duration,
                             last_snapshot_time |-> t,
                             last_coverage |-> ckpt.runtime.last_coverage,
                             last_execs |-> ckpt.runtime.last_execs ]
             /\ stats' = [ total_execs |-> m.stats.total_execs,
                           total_crashes |-> m.stats.total_crashes,
                           total_hangs |-> m.stats.total_hangs,
                           saved_crashes |-> m.stats.saved_crashes,
                           saved_hangs |-> m.stats.saved_hangs,
                           interesting_inputs |-> m.stats.interesting_inputs,
                           total_coverage_bits |->
                               IF use_coverage THEN CoverageBits(vb.val)
                               ELSE stats.total_coverage_bits ]
             /\ virgin_bits' = vb
             /\ virgin_crash' = IF use_coverage
                                THEN LoadBitmap(m.virgin_crash, virgin_crash)
                                ELSE virgin_crash
             /\ virgin_tmout' = IF use_coverage
                                THEN LoadBitmap(m.virgin_tmout, virgin_tmout)
                                ELSE virgin_tmout
             /\ CONFIG' = ckpt.config
             /\ strategy' = sc.strategy
             /\ total_exec_time' = sc.total_exec_time
             /\ total_coverage' = sc.total_coverage
             /\ total_memory' = SumSeq([i \in 1..Len(loaded) |-> Len(loaded[i].data)])
             /\ fifo_index' = sc.fifo_index
             /\ seeds' = loaded
             /\ calc' = [i \in 1..Len(loaded) |-> [n |-> 0 - 1, tet |-> 0, tcov |-> 0]]
             /\ eng_call' = EngCall("load", TRUE,
                    \E f \in DOMAIN m.stats : m.stats[f] # stats[f])
             /\ UNCHANGED << use_coverage, crash_hashes, hang_hashes, crash_files,
                             hang_files, queue_files, call, sched_call, now, ckpt,
                             at_save >>

(***************************************************************************)
(* Engine: Fuzzer._process_seed and the steps of the fuzz loop.            *)
(***************************************************************************)
\* utils.count_coverage_bits(bitmap)
count_coverage_bits(bitmap) ==
    IF ~Truthy(bitmap) THEN 0
    ELSE SumSeq([i \in 1..Len(bitmap.val) |-> bit_count(bitmap.val[i])])

\* Runs of the Executor inside the engine: the input, the result (crashed and
\* timeout exclude each other there) and its exec_time.
Result(crashed, timeout, coverage) ==
    [ crashed |-> crashed, timeout |-> timeout, coverage |-> coverage,
      stderr |-> <<>> ]
EngineRuns ==
    { [ input |-> <<65>>, res |-> Result(FALSE, FALSE, Some(Pad(<<1>>))), exec_time |-> 1 ],
      [ input |-> <<66>>, res |-> Result(FALSE, FALSE, Some(Pad(<<0, 128>>))), exec_time |-> 100 ],
      [ input |-> <<>>, res |-> Result(FALSE, FALSE, NoneVal), exec_time |-> 1 ],
      [ input |-> <<65>>, res |-> Result(TRUE, FALSE, Some(Pad(<<1>>))), exec_time |-> 1 ],
      [ input |-> <<66, 65>>, res |-> Result(TRUE, FALSE, NoneVal), exec_time |-> 1 ],
      [ input |-> <<65>>, res |-> Result(FALSE, TRUE, Some(Pad(<<0, 128>>))), exec_time |-> 100 ] }

\* Mutant of process_seed: the size of the seed is not checked.
process_seed_Unchecked(seed_data, is_initial, res, exec_time) ==
    IF FALSE
    THEN /\ eng_call' = EngCall("process_seed", FALSE, FALSE)
         /\ UNCHANGED << monVars, schedVars, strategy, total_memory, fifo_index,
                         runtime, now, ckpt, at_save, CONFIG >>
    ELSE /\ now' = now + 1
         /\ process_execution(seed_data, res)
         /\ IF is_initial \/ call'.ret
            THEN add_seed(seed_data, count_coverage_bits(res.coverage), exec_time)
            ELSE UNCHANGED schedVars
         /\ LET r1 == IF call'.ret /\ stats'.total_coverage_bits > runtime.last_coverage
                      THEN [runtime EXCEPT !.last_coverage = stats'.total_coverage_bits]
                      ELSE runtime
            IN  runtime' = IF now' - r1.last_snapshot_time >= LogInterval
                           THEN [r1 EXCEPT !.last_snapshot_time = now',
                                           !.last_execs = stats'.total_execs]
                           ELSE r1
         /\ eng_call' = EngCall("process_seed", TRUE, FALSE)
         /\ UNCHANGED << strategy, total_memory, fifo_index, ckpt, at_save, CONFIG >>

\* Fuzzer._process_seed(seed_data, is_initial) with the Executor's answer.
process_seed(seed_data, is_initial, res, exec_time) ==
    IF Len(seed_data) > CONFIG.max_seed_size
    THEN /\ eng_call' = EngCall("process_seed", FALSE, FALSE)
         /\ UNCHANGED << monVars, schedVars, strategy, total_memory, fifo_index,
                         runtime, now, ckpt, at_save, CONFIG >>
    ELSE /\ now' = now + 1
         /\ process_execution(seed_data, res)
         /\ IF is_initial \/ call'.ret
            THEN add_seed(seed_data, count_coverage_bits(res.coverage), exec_time)
            ELSE UNCHANGED schedVars
         /\ LET r1 == IF call'.ret /\ stats'.total_coverage_bits > runtime.last_coverage
                      THEN [runtime EXCEPT !.last_coverage = stats'.total_coverage_bits]
                      ELSE runtime
            IN  runtime' = IF now' - r1.last_snapshot_time >= LogInterval
                           THEN [r1 EXCEPT !.last_snapshot_time = now',
                                           !.last_execs = stats'.total_execs]
                           ELSE r1
         /\ eng_call' = EngCall("process_seed", TRUE, FALSE)
         /\ UNCHANGED << strategy, total_memory, fifo_index, ckpt, at_save, CONFIG >>

(***************************************************************************)
(* Executor: TestExecutor.execute, one step per system call that can fail  *)
(* or that the target can overtake.  The target is the child started by    *)
(* Popen (a new session, so its pid is the id of its process group) and    *)
(* the background children it leaves in that group.                        *)
(***************************************************************************)
\* Background children one target starts, at most.
MaxChildren == 1

\* Exit statuses of a target that ends by itself: success, failure, the
\* shell's 128 + signal convention, and death by a signal (negative).
ReturnCodes == { 0, 1, 127, 128, 139, 0 - 11 }

SIGKILL == 9

VARIABLES
    stdin_mode,       \* '@@' not in target_args: the input goes to stdin
    ex_pc,            \* where execute is
    handles,          \* the file objects execute holds open
    proc,             \* the local variable proc: "none" or "bound"
    proc_state,       \* the child: "none", "running", "zombie" or "reaped"
    returncode,       \* the status the child ended with
    children,         \* live background children in the child's group
    result,           \* what execute returned: None before it returns
    ex_log            \* history: the forks, kills, reaps and closes of this call

execVars == << stdin_mode, ex_pc, handles, proc, proc_state, returncode,
               children, result, ex_log >>

\* ExecutionResult(...) without exec_time; stderr is the kind of its text.
ExecutionResult(return_code, crashed, timeout, stderr, coverage) ==
    [ return_code |-> return_code, crashed |-> crashed, timeout |-> timeout,
      stderr |-> stderr, coverage |-> coverage ]

\* self.shm.read_bitmap() if self.shm else None
ReadCoverage == IF use_coverage THEN "bitmap" ELSE "none"

\* The processes of the target's group that are alive.
GroupAlive == (IF proc_state = "running" THEN 1 ELSE 0) + children

\* TestExecutor.__init__ for a target that reads the file named by @@.
ExecutorInit ==
    /\ stdin_mode = FALSE
    /\ ex_pc = "idle"
    /\ handles = {}
    /\ proc = "none"
    /\ proc_state = "none"
    /\ returncode = 0
    /\ children = 0
    /\ result = NoneVal
    /\ ex_log = <<>>

\* execute, to the end of _write_input_file: the write of the input file
\* succeeds or its exception becomes the result.
ExecWrite ==
    /\ ex_pc \in { "idle", "done", "raised" }
    /\ handles' = {}
    /\ proc' = "none"
    /\ proc_state' = "none"
    /\ returncode' = 0
    /\ children' = 0
    /\ ex_log' = <<>>
    /\ \E ok \in BOOLEAN :
           IF ok
           THEN /\ ex_pc' = "prepare"
                /\ result' = NoneVal
           ELSE /\ ex_pc' = "done"
                /\ result' = Some(ExecutionResult(0 - 1, TRUE, FALSE,
                                                  "Failed to write input", "none"))
    /\ UNCHANGED stdin_mode

\* _prepare_execution_context: in stdin mode the input file is opened for
\* reading, outside every try block.
ExecPrepare ==
    /\ ex_pc = "prepare"
    /\ IF stdin_mode
       THEN \E ok \in BOOLEAN :
                IF ok
                THEN /\ handles' = { "stdin" }
                     /\ ex_pc' = "open"
                ELSE /\ handles' = handles
                     /\ ex_pc' = "raised"
       ELSE /\ handles' = handles
            /\ ex_pc' = "open"
    /\ UNCHANGED << stdin_mode, proc, proc_state, returncode, children, result,
                    ex_log >>

\* _execute_target: stdout and stderr are opened for the redirection.
ExecOpen ==
    /\ ex_pc = "open"
    /\ \E opened \in { {}, { "stdout" }, { "stdout", "stderr" } } :
           /\ handles' = handles \cup opened
           /\ ex_pc' = IF opened = { "stdout", "stderr" } THEN "popen" ELSE "except"
    /\ UNCHANGED << stdin_mode, proc, proc_state, returncode, children, result,
                    ex_log >>

\* subprocess.Popen(...), first half: the child is forked and runs, or the
\* spawn fails and nothing runs.
ExecFork ==
    /\ ex_pc = "popen"
    /\ \E ok \in BOOLEAN :
           IF ok
           THEN /\ proc_state' = "running"
                /\ ex_pc' = "bind"
           ELSE /\ proc_state' = proc_state
                /\ ex_pc' = "except"
    /\ UNCHANGED << stdin_mode, handles, proc, returncode, children, result,
                    ex_log >>

\* subprocess.Popen(...), second half: the constructor returns and proc is
\* assigned.
ExecBind ==
    /\ ex_pc = "bind"
    /\ proc' = "bound"
    /\ ex_pc' = "wait"
    /\ UNCHANGED << stdin_mode, handles, proc_state, returncode, children,
                    result, ex_log >>

\* The target starts a background child in its own process group.
TargetFork ==
    /\ proc_state = "running"
    /\ children < MaxChildren
    /\ children' = children + 1
    /\ ex_log' = Append(ex_log, "fork")
    /\ UNCHANGED << stdin_mode, ex_pc, handles, proc, proc_state, returncode,
                    result >>

\* The target ends by itself.
TargetExit ==
    /\ proc_state = "running"
    /\ proc_state' = "zombie"
    /\ \E rc \in ReturnCodes : returncode' = rc
    /\ UNCHANGED << stdin_mode, ex_pc, handles, proc, children, result, ex_log >>

\* proc.wait(timeout=self.timeout) returns: the child has ended and is reaped.
ExecWaitReturn ==
    /\ ex_pc = "wait"
    /\ proc_state = "zombie"
    /\ proc_state' = "reaped"
    /\ ex_pc' = "collect"
    /\ UNCHANGED << stdin_mode, handles, proc, returncode, children, result,
                    ex_log >>

\* proc.wait(timeout=self.timeout) raises TimeoutExpired: the deadline passed
\* before wait saw the child end.
ExecDeadline ==
    /\ ex_pc = "wait"
    /\ ex_pc' = "tmo_kill"
    /\ UNCHANGED << stdin_mode, handles, proc, proc_state, returncode, children,
                    result, ex_log >>

\* An exception other than TimeoutExpired inside the try block, with the
\* child started: the except branch foresees it (proc is not None).
ExecRaise ==
    /\ ex_pc \in { "wait", "collect" }
    /\ ex_pc' = "except"
    /\ UNCHANGED << stdin_mode, handles, proc, proc_state, returncode, children,
                    result, ex_log >>

\* os.killpg(pgid, SIGKILL): every live process of the group dies; the
\* child stays a zombie until it is reaped.
KilledState == IF proc_state = "running" THEN "zombie" ELSE proc_state
KilledCode == IF proc_state = "running" THEN 0 - SIGKILL ELSE returncode

\* ExecTimeoutKill without the kill: the handler goes straight to proc.wait().
ExecTimeoutKill_NoKill ==
    /\ ex_pc = "tmo_kill"
    /\ ex_pc' = "tmo_reap"
    /\ UNCHANGED << stdin_mode, handles, proc, proc_state, returncode, children,
                    result, ex_log >>

\* The handler of TimeoutExpired: os.killpg(os.getpgid(proc.pid), SIGKILL).
ExecTimeoutKill ==
    /\ ex_pc = "tmo_kill"
    /\ proc_state' = KilledState
    /\ returncode' = KilledCode
    /\ children' = 0
    /\ ex_log' = Append(ex_log, "killpg")
    /\ ex_pc' = "tmo_reap"
    /\ UNCHANGED << stdin_mode, handles, proc, result >>

\* The handler of TimeoutExpired: proc.wait() blocks until the child has
\* ended, then the timeout result is built.
ExecTimeoutReap ==
    /\ ex_pc = "tmo_reap"
    /\ proc_state = "zombie"
    /\ proc_state' = "reaped"
    /\ ex_log' = Append(ex_log, "reap")
    /\ result' = Some(ExecutionResult(0 - 1, FALSE, TRUE, "Execution timeout",
                                      ReadCoverage))
    /\ ex_pc' = "finally"
    /\ UNCHANGED << stdin_mode, handles, proc, returncode, children >>

\* ExecCollect with crashed = (return code is not zero).
ExecCollect_NonZero ==
    /\ ex_pc = "collect"
    /\ result' = Some(ExecutionResult(returncode, returncode # 0, FALSE, "output",
                                      ReadCoverage))
    /\ handles' = handles \ { "stdout", "stderr" }
    /\ ex_pc' = "finally"
    /\ UNCHANGED << stdin_mode, proc, proc_state, returncode, children, ex_log >>

\* The run ended before the deadline: coverage, crashed, the handles of
\* stdout and stderr are closed, stderr is read back.
ExecCollect ==
    /\ ex_pc = "collect"
    /\ LET crashed == returncode < 0 \/ returncode >= 128
       IN  result' = Some(ExecutionResult(returncode, crashed, FALSE, "output",
                                          ReadCoverage))
    /\ handles' = handles \ { "stdout", "stderr" }
    /\ ex_pc' = "finally"
    /\ UNCHANGED << stdin_mode, proc, proc_state, returncode, children, ex_log >>

\* except Exception: a child that still runs is killed with its group and
\* reaped (poll reaps one that has ended); the exception becomes the result.
ExecExcept ==
    /\ ex_pc = "except"
    /\ IF proc = "bound" /\ proc_state = "running"
       THEN /\ proc_state' = "reaped"
            /\ returncode' = 0 - SIGKILL
            /\ children' = 0
            /\ ex_log' = ex_log \o << "killpg", "reap" >>
       ELSE /\ proc_state' = IF proc = "bound" /\ proc_state = "zombie"
                             THEN "reaped" ELSE proc_state
            /\ UNCHANGED << returncode, children, ex_log >>
    /\ result' = Some(ExecutionResult(0 - 1, TRUE, FALSE, "exception", "none"))
    /\ ex_pc' = "finally"
    /\ UNCHANGED << stdin_mode, handles, proc >>

\* ExecFinally without the kill of the process group.
ExecFinally_NoKill ==
    /\ ex_pc = "finally"
    /\ ex_log' = Append(ex_log, "close")
    /\ handles' = {}
    /\ ex_pc' = "done"
    /\ UNCHANGED << stdin_mode, proc, proc_state, returncode, children, result >>

\* finally: os.killpg(proc.pid, SIGKILL) if proc, every handle is closed, and
\* execute returns the result.
ExecFinally ==
    /\ ex_pc = "finally"
    /\ IF proc = "bound"
       THEN /\ proc_state' = KilledState
            /\ returncode' = KilledCode
            /\ children' = 0
            /\ ex_log' = ex_log \o << "killpg", "close" >>
       ELSE /\ ex_log' = Append(ex_log, "close")
            /\ UNCHANGED << proc_state, returncode, children >>
    /\ handles' = {}
    /\ ex_pc' = "done"
    /\ UNCHANGED << stdin_mode, proc, result >>

(***************************************************************************)
(* The fuzz loop: Fuzzer.fuzz_loop, with the handler of SIGINT, which      *)
(* Python runs between two steps of the loop.  The duration can run out at *)
(* any moment.                                                             *)
(***************************************************************************)
\* Executions of mutants in one run of the loop, and SIGINTs sent to it.
MaxLoopExecs == 3
MaxSigints == 2
MaxSigterms == 2

\* Mutator.mutate(seed.data, 'havoc', ...): the mutants it may return.
Mutants == { <<65>>, <<66>> }

VARIABLES
    loop_pc,          \* where fuzz_loop is
    pause_requested,  \* Fuzzer.pause_requested
    exit_code,        \* the exit status of the engine: None while it runs
    duration_over,    \* time.time() - self.start_time >= duration_seconds
    for_left,         \* iterations left of for _ in range(energy)
    mutant,           \* the mutant handed to _process_seed
    sigints,          \* history: the number of SIGINTs received
    paused_at,        \* history: loop_pc, ckpt and total_execs when the last
                      \* SIGINT arrived
    force_exit,       \* Fuzzer.force_exit
    sigterms,         \* history: the number of SIGTERMs received
    final_report,     \* stats.json, final_report.json and the plots exist
    handler_io,       \* history: where the main loop was when a signal
                      \* handler wrote files, "none" if none did
    resume_flag,      \* Fuzzer.resume_flag: bool(resume_from)
    seed_dir,         \* the files under seed_dir in os.walk order: None if
                      \* the directory does not exist
    file_idx,         \* load_initial_seeds: the index of the next seed file
    fn_name,          \* the function under application: "none" if none
    fn_arg,           \* its argument
    fn_ret            \* the values it returned in the order of the calls, or
                      \* the locals and the end of the call in progress

corpusVars == << seed_dir, file_idx >>

fnVars == << fn_name, fn_arg, fn_ret >>

\* No function of the library is under application.
FnIdle ==
    /\ fn_name = "none"
    /\ fn_arg = <<>>
    /\ fn_ret = <<>>

haltVars == << sigints, paused_at, force_exit, sigterms, final_report, handler_io,
               resume_flag, corpusVars, fnVars >>

loopVars == << loop_pc, pause_requested, exit_code, duration_over, for_left,
               mutant, haltVars >>

\* The steps of the loop itself.
InLoop(pc) == pc \in { "while", "pause_check", "select", "for", "mutate", "execute" }

\* Fuzzer.__init__: fuzz_loop has not begun.
LoopInit ==
    /\ loop_pc = "start"
    /\ pause_requested = FALSE
    /\ exit_code = NoneVal
    /\ duration_over = FALSE
    /\ for_left = 0
    /\ mutant = <<>>
    /\ sigints = 0
    /\ paused_at = [ pc |-> "none", saved |-> FALSE, execs |-> 0 ]
    /\ force_exit = FALSE
    /\ sigterms = 0
    /\ final_report = FALSE
    /\ handler_io = "none"
    /\ resume_flag = FALSE
    /\ seed_dir = NoneVal
    /\ file_idx = 0
    /\ FnIdle

\* max(1, min(16, int(seed.energy)))
Min(a, b) == IF a < b THEN a ELSE b
Max(a, b) == IF a > b THEN a ELSE b
EnergyOf(seed) == Max(1, Min(16, seed.energy.num \div seed.energy.den))

\* Fuzzer.__init__ from self.resume_flag = bool(resume_from) on: the handlers
\* are installed and, with a resume_from, _load_checkpoint is called; what it
\* returns is not looked at.
Construct ==
    /\ loop_pc = "new"
    /\ IF resume_flag
       THEN load(now)
       ELSE UNCHANGED << monVars, schedVars, engVars >>
    /\ loop_pc' = "start"
    /\ UNCHANGED << pause_requested, exit_code, duration_over, for_left, mutant,
                    haltVars >>
    /\ UNCHANGED execVars

\* fuzz_loop begins: without resume_flag load_initial_seeds finds no seed
\* file and adds the empty seed, self.scheduler.add_seed(b'', 0, 0.1); with
\* it the initial seed loading is skipped.
LoopStart ==
    /\ loop_pc = "start"
    /\ IF resume_flag
       THEN UNCHANGED schedVars
       ELSE add_seed(<<>>, 0, 100)
    /\ loop_pc' = "while"
    /\ UNCHANGED << pause_requested, exit_code, duration_over, for_left, mutant,
                    haltVars >>
    /\ UNCHANGED << monVars, engVars, execVars >>

\* while time.time() - self.start_time < duration_seconds
LoopWhile ==
    /\ loop_pc = "while"
    /\ loop_pc' = IF duration_over THEN "finalize" ELSE "pause_check"
    /\ UNCHANGED << pause_requested, exit_code, duration_over, for_left, mutant,
                    haltVars >>
    /\ UNCHANGED << monVars, schedVars, engVars, execVars >>

\* if self.pause_requested: self._save_checkpoint(reason="pause"); break
LoopPauseCheck ==
    /\ loop_pc = "pause_check"
    /\ IF pause_requested
       THEN /\ save
            /\ loop_pc' = "finalize"
       ELSE /\ loop_pc' = "select"
            /\ UNCHANGED << monVars, schedVars, engVars >>
    /\ UNCHANGED << pause_requested, exit_code, duration_over, for_left, mutant,
                    haltVars >>
    /\ UNCHANGED execVars

\* checkpoint.json between the open(..., 'w') and the write of write_text:
\* it exists and holds nothing.
EmptyFile == [ some |-> TRUE, text |-> "" ]

\* The pause check with the write of the checkpoint in its two steps.
\* checkpoint_file.write_text(json_data) first opens the file for writing,
\* which truncates it ...
LoopPauseOpen ==
    /\ loop_pc = "pause_check"
    /\ IF pause_requested
       THEN /\ ckpt' = EmptyFile
            /\ loop_pc' = "write_text"
       ELSE /\ loop_pc' = "select"
            /\ UNCHANGED ckpt
    /\ UNCHANGED << strategy, total_memory, fifo_index, runtime, now, at_save,
                    eng_call, CONFIG >>
    /\ UNCHANGED << pause_requested, exit_code, duration_over, for_left, mutant,
                    haltVars >>
    /\ UNCHANGED << monVars, schedVars, execVars >>

\* ... and then writes the serialized state and closes it; break.
LoopPauseWrite ==
    /\ loop_pc = "write_text"
    /\ save
    /\ loop_pc' = "finalize"
    /\ UNCHANGED << pause_requested, exit_code, duration_over, for_left, mutant,
                    haltVars >>
    /\ UNCHANGED execVars

\* seed = self.scheduler.select_next(); if seed is None: break; energy = ...
LoopSelect ==
    /\ loop_pc = "select"
    /\ select_next
    /\ IF sched_call'.ret.some
       THEN /\ for_left' = EnergyOf(sched_call'.ret.val)
            /\ loop_pc' = "for"
       ELSE /\ for_left' = for_left
            /\ loop_pc' = "finalize"
    /\ UNCHANGED << pause_requested, exit_code, duration_over, mutant, haltVars >>
    /\ UNCHANGED << monVars, engVars, execVars >>

\* Mutant of LoopFor: the flag is not polled between mutations.
LoopFor_NoPoll ==
    /\ loop_pc = "for"
    /\ IF for_left = 0
       THEN /\ loop_pc' = "while"
            /\ for_left' = for_left
       ELSE /\ loop_pc' = "mutate"
            /\ for_left' = for_left - 1
    /\ UNCHANGED << pause_requested, exit_code, duration_over, mutant, haltVars >>
    /\ UNCHANGED << monVars, schedVars, engVars, execVars >>

\* for _ in range(energy): if self.pause_requested: break
LoopFor ==
    /\ loop_pc = "for"
    /\ IF for_left = 0 \/ pause_requested
       THEN /\ loop_pc' = "while"
            /\ for_left' = for_left
       ELSE /\ loop_pc' = "mutate"
            /\ for_left' = for_left - 1
    /\ UNCHANGED << pause_requested, exit_code, duration_over, mutant, haltVars >>
    /\ UNCHANGED << monVars, schedVars, engVars, execVars >>

\* mutant = Mutator.mutate(...); self._process_seed(mutant), up to its call
\* of executor.execute
LoopMutate ==
    /\ loop_pc = "mutate"
    /\ stats.total_execs < MaxLoopExecs
    /\ \E m \in Mutants : mutant' = m
    /\ loop_pc' = "execute"
    /\ ex_pc' = "idle"
    /\ result' = NoneVal
    /\ UNCHANGED << pause_requested, exit_code, duration_over, for_left, haltVars >>
    /\ UNCHANGED << stdin_mode, handles, proc, proc_state, returncode, children,
                    ex_log >>
    /\ UNCHANGED << monVars, schedVars, engVars >>

\* executor.execute(seed_data) inside _process_seed, and the target it runs.
LoopExecute ==
    /\ loop_pc = "execute"
    /\ \/ ex_pc = "idle" /\ ExecWrite
       \/ ExecPrepare \/ ExecOpen \/ ExecFork \/ ExecBind \/ ExecWaitReturn
       \/ ExecDeadline \/ ExecRaise \/ ExecTimeoutKill \/ ExecTimeoutReap
       \/ ExecCollect \/ ExecExcept \/ ExecFinally
       \/ TargetFork \/ TargetExit
    /\ UNCHANGED << monVars, schedVars, engVars, loopVars >>

\* What the Monitor is handed for a result of the Executor.
CoverageOf(m, r) ==
    IF r.coverage = "none" THEN NoneVal
    ELSE IF m = <<65>> THEN Some(Pad(<<1>>)) ELSE Some(Pad(<<0, 128>>))

\* The rest of _process_seed, once execute has returned.
LoopProcess ==
    /\ loop_pc = "execute"
    /\ ex_pc = "done"
    /\ LET r == result.val
       IN  process_seed(mutant, FALSE,
                        Result(r.crashed, r.timeout, CoverageOf(mutant, r)),
                        IF r.timeout THEN 100 ELSE 1)
    /\ loop_pc' = "for"
    /\ UNCHANGED << pause_requested, exit_code, duration_over, for_left, mutant,
                    haltVars >>
    /\ UNCHANGED execVars

\* self._finalize(), the return of fuzz_loop, fuzzer.cleanup() in main, and
\* the end of the process with status 0.
LoopFinalize ==
    /\ loop_pc = "finalize"
    /\ loop_pc' = "exited"
    /\ exit_code' = Some(0)
    /\ final_report' = TRUE
    /\ UNCHANGED << pause_requested, duration_over, for_left, mutant, sigints,
                    paused_at, force_exit, sigterms, handler_io, resume_flag,
                    corpusVars, fnVars >>
    /\ UNCHANGED << monVars, schedVars, engVars, execVars >>

\* The duration of the campaign runs out.
DurationEnds ==
    /\ loop_pc # "exited"
    /\ ~duration_over
    /\ duration_over' = TRUE
    /\ UNCHANGED << loop_pc, pause_requested, exit_code, for_left, mutant,
                    haltVars >>
    /\ UNCHANGED << monVars, schedVars, engVars, execVars >>

\* execute is inside the try block of _execute_target.
InTry == ex_pc \in { "open", "popen", "bind", "wait", "tmo_kill", "tmo_reap",
                     "collect", "except", "finally" }

\* _pause_handler: the first SIGINT sets pause_requested; one that finds it
\* set calls sys.exit(1), and SystemExit leaves execute through the finally
\* block of _execute_target, and main through fuzzer.cleanup().
Sigint ==
    /\ loop_pc # "exited"
    /\ sigints < MaxSigints
    /\ sigints' = sigints + 1
    /\ paused_at' = [ pc |-> loop_pc, saved |-> ckpt.some,
                      execs |-> stats.total_execs ]
    /\ UNCHANGED << force_exit, sigterms, final_report, handler_io, resume_flag,
                    corpusVars, fnVars >>
    /\ IF pause_requested \/ force_exit
       THEN /\ loop_pc' = "exited"
            /\ exit_code' = Some(1)
            /\ IF loop_pc = "execute" /\ InTry
               THEN /\ IF proc = "bound"
                       THEN /\ proc_state' = KilledState
                            /\ returncode' = KilledCode
                            /\ children' = 0
                            /\ ex_log' = ex_log \o << "killpg", "close" >>
                       ELSE /\ ex_log' = Append(ex_log, "close")
                            /\ UNCHANGED << proc_state, returncode, children >>
                    /\ handles' = {}
               ELSE UNCHANGED << proc_state, returncode, children, ex_log, handles >>
            /\ ex_pc' = "exited"
            /\ UNCHANGED pause_requested
       ELSE /\ pause_requested' = TRUE
            /\ UNCHANGED << loop_pc, exit_code, ex_pc, proc_state, returncode,
                            children, ex_log, handles >>
    /\ UNCHANGED << duration_over, for_left, mutant, stdin_mode, proc, result >>
    /\ UNCHANGED << monVars, schedVars, engVars >>

\* _signal_handler, installed for SIGTERM: it runs _finalize() (stats.json,
\* final_report.json, the plots) and then sys.exit(0), all inside the handler.
\* SystemExit leaves execute through the finally block of _execute_target.
Sigterm ==
    /\ loop_pc # "exited"
    /\ sigterms < MaxSigterms
    /\ sigterms' = sigterms + 1
    /\ final_report' = TRUE
    /\ handler_io' = loop_pc
    /\ loop_pc' = "exited"
    /\ exit_code' = Some(0)
    /\ IF loop_pc = "execute" /\ InTry
       THEN /\ IF proc = "bound"
               THEN /\ proc_state' = KilledState
                    /\ returncode' = KilledCode
                    /\ children' = 0
                    /\ ex_log' = ex_log \o << "killpg", "close" >>
               ELSE /\ ex_log' = Append(ex_log, "close")
                    /\ UNCHANGED << proc_state, returncode, children >>
            /\ handles' = {}
       ELSE UNCHANGED << proc_state, returncode, children, ex_log, handles >>
    /\ ex_pc' = "exited"
    /\ UNCHANGED << pause_requested, force_exit, sigints, paused_at, resume_flag,
                    corpusVars, fnVars >>
    /\ UNCHANGED << duration_over, for_left, mutant, stdin_mode, proc, result >>
    /\ UNCHANGED << monVars, schedVars, engVars >>

vars == << monVars, schedVars, engVars, execVars, loopVars >>

Init == MonitorInit /\ SchedulerInit /\ EngineInit /\ ExecutorInit /\ LoopInit

(***************************************************************************)
(* Specifications.                                                         *)
(***************************************************************************)
\* The Monitor alone: any sequence of process_execution calls.
MonProcess ==
    /\ stats.total_execs < MaxExecs
    /\ \E c \in MonitorCalls : process_execution(c.input, c.res)
    /\ UNCHANGED << schedVars, engVars, execVars, loopVars >>

NextMon == MonProcess

SpecMon == Init /\ [][NextMon]_vars

\* The Scheduler alone: any sequence of pushes and pops.
Push ==
    /\ Len(seeds) < MaxSeeds
    /\ \E i \in SeedInputs : add_seed(i.data, i.coverage_bits, i.exec_time)
    /\ UNCHANGED << monVars, engVars, execVars, loopVars >>

Pop ==
    /\ SumExecCount(seeds) < MaxPops
    /\ select_next
    /\ UNCHANGED << monVars, engVars, execVars, loopVars >>

NextSched == Push \/ Pop

SpecSched == Init /\ [][NextSched]_vars

\* The Scheduler of an engine configured with seed_sort_strategy = 'fifo'.
\* SeedScheduler reads no configuration: its pushes and pops are the same.
InitFifo ==
    /\ MonitorInit /\ SchedulerInit
    /\ strategy = "fifo"
    /\ total_memory = 0
    /\ fifo_index = 0
    /\ now = 0
    /\ runtime = [ start_time |-> 0, last_snapshot_time |-> 0,
                   last_coverage |-> 0, last_execs |-> 0 ]
    /\ ckpt = NoFile
    /\ at_save = [ some |-> FALSE ]
    /\ eng_call = EngCall("none", FALSE, FALSE)
    /\ CONFIG = [ timeout |-> DefaultTimeout, max_seed_size |-> MaxSeedSize ]
    /\ ExecutorInit
    /\ LoopInit

SpecFifo == InitFifo /\ [][NextSched]_vars

\* The Scheduler with one seed, popped again and again.
DecayPush ==
    /\ Len(seeds) < MaxDecaySeeds
    /\ \E i \in SeedInputs : add_seed(i.data, i.coverage_bits, i.exec_time)
    /\ UNCHANGED << monVars, engVars, execVars, loopVars >>

DecayPop ==
    /\ SumExecCount(seeds) < MaxDecayPops
    /\ select_next
    /\ UNCHANGED << monVars, engVars, execVars, loopVars >>

NextDecay == DecayPush \/ DecayPop

SpecDecay == Init /\ [][NextDecay]_vars

\* The Scheduler popped again and again: seeds are pushed before the first
\* pop only, and select_next is called as long as the bound allows.

StarvePush ==
    /\ Len(seeds) < MaxStarveSeeds
    /\ SumExecCount(seeds) = 0
    /\ \E i \in SeedInputs : add_seed(i.data, i.coverage_bits, i.exec_time)
    /\ UNCHANGED << monVars, engVars, execVars, loopVars >>

StarvePop ==
    /\ SumExecCount(seeds) < MaxStarvePops
    /\ select_next
    /\ UNCHANGED << monVars, engVars, execVars, loopVars >>

NextStarve == StarvePush \/ StarvePop

\* The caller goes on calling select_next: weak fairness of the pop on a
\* non-empty Scheduler, WF_vars(StarvePop), written out with the condition
\* under which such a pop is possible.
StarvePopEnabled == SumExecCount(seeds) < MaxStarvePops /\ seeds # <<>>

StarveFair == []<>(~StarvePopEnabled) \/ []<><<StarvePop>>_vars

SpecStarve == Init /\ [][NextStarve]_vars /\ StarveFair

\* The engine: seeds are processed and selected, checkpoints saved and loaded.
ProcessSeed ==
    /\ now < MaxEngineExecs
    /\ \E r \in EngineRuns, is_initial \in BOOLEAN :
           process_seed(r.input, is_initial, r.res, r.exec_time)
    /\ UNCHANGED << execVars, loopVars >>

SelectNext ==
    /\ SumExecCount(seeds) < MaxEnginePops
    /\ select_next
    /\ eng_call' = EngCall("select_next", TRUE, FALSE)
    /\ UNCHANGED << monVars, strategy, total_memory, fifo_index, runtime, now,
                    ckpt, at_save, CONFIG >>
    /\ UNCHANGED << execVars, loopVars >>

Save == save /\ UNCHANGED << execVars, loopVars >>

Load == load(now) /\ UNCHANGED << execVars, loopVars >>

Next == ProcessSeed \/ SelectNext \/ Save \/ Load

Spec == Init /\ [][Next]_vars

\* The versions and the timeout of the checkpoint files that another build
\* of the engine, or another campaign, leaves at the checkpoint path.
OtherVersions == { 0, CHECKPOINT_VERSION, CHECKPOINT_VERSION + 1 }
OtherTimeout == 2

\* checkpoint.json is replaced by the file of another build or campaign: the
\* same layout, its own version number and its own CONFIG.
OtherCheckpoint ==
    /\ ckpt.some
    /\ ckpt.version = CHECKPOINT_VERSION
    /\ ckpt.config = CONFIG
    /\ \E v \in OtherVersions :
           ckpt' = [ckpt EXCEPT !.version = v,
                                !.config = [ @ EXCEPT !.timeout = OtherTimeout ]]
    /\ UNCHANGED << strategy, total_memory, fifo_index, runtime, now, at_save,
                    eng_call, CONFIG >>
    /\ UNCHANGED << monVars, schedVars, execVars, loopVars >>

\* The executions between saves and loads: mutants (is_initial = False) of
\* one input, with the three outcomes a run can have.
MaxResumeExecs == 2
ResumeRuns == { r \in EngineRuns : r.input = <<65>> }

ResumeProcess ==
    /\ now < MaxResumeExecs
    /\ \E r \in ResumeRuns : process_seed(r.input, FALSE, r.res, r.exec_time)
    /\ UNCHANGED << execVars, loopVars >>

NextResume == ResumeProcess \/ Save \/ Load \/ OtherCheckpoint

SpecResume == Init /\ [][NextResume]_vars

\* The Executor alone: one execute call after another, against a target that
\* may start a background child and may end by itself, for either way of
\* passing the input.
InitExec ==
    /\ MonitorInit /\ SchedulerInit /\ EngineInit
    /\ stdin_mode \in BOOLEAN
    /\ ex_pc = "idle"
    /\ handles = {}
    /\ proc = "none"
    /\ proc_state = "none"
    /\ returncode = 0
    /\ children = 0
    /\ result = NoneVal
    /\ ex_log = <<>>
    /\ LoopInit

\* The engine around the Executor stands still.
EngineWaits == UNCHANGED << monVars, schedVars, engVars, loopVars >>

ExecStep ==
    \/ ExecWrite \/ ExecPrepare \/ ExecOpen \/ ExecFork \/ ExecBind
    \/ ExecWaitReturn \/ ExecDeadline \/ ExecRaise \/ ExecTimeoutKill
    \/ ExecTimeoutReap \/ ExecCollect \/ ExecExcept \/ ExecFinally

NextExec ==
    \/ ExecWrite /\ EngineWaits
    \/ ExecPrepare /\ EngineWaits
    \/ ExecOpen /\ EngineWaits
    \/ ExecFork /\ EngineWaits
    \/ ExecBind /\ EngineWaits
    \/ ExecWaitReturn /\ EngineWaits
    \/ ExecDeadline /\ EngineWaits
    \/ ExecRaise /\ EngineWaits
    \/ ExecTimeoutKill /\ EngineWaits
    \/ ExecTimeoutReap /\ EngineWaits
    \/ ExecCollect /\ EngineWaits
    \/ ExecExcept /\ EngineWaits
    \/ ExecFinally /\ EngineWaits
    \/ TargetFork /\ EngineWaits
    \/ TargetExit /\ EngineWaits

SpecExec == InitExec /\ [][NextExec]_vars

\* The engine's process goes on running: a step of execute that can be taken
\* is taken.  Nothing makes the target take a step.
ExecFair == WF_vars(ExecStep /\ EngineWaits)

SpecExecFair == InitExec /\ [][NextExec]_vars /\ ExecFair

\* The fuzz loop of an engine started without seed files, which may receive
\* SIGINT at any step.
NextLoop ==
    \/ LoopStart \/ LoopWhile \/ LoopPauseCheck \/ LoopSelect \/ LoopFor
    \/ LoopMutate \/ LoopExecute \/ LoopProcess \/ LoopFinalize \/ DurationEnds \/ Sigint

SpecLoop == Init /\ [][NextLoop]_vars

\* The seed directories of the corpus loading: absent, or up to MaxSeedFiles
\* regular files, one of them longer than CONFIG['max_seed_size'].
MaxSeedFiles == 3
Oversized == [i \in 1..(MaxSeedSize + 1) |-> 66]
SeedFiles == { <<>>, <<65>>, <<66, 65>>, Oversized }
SeedDirs ==
    { NoneVal } \cup
    { Some(fs) : fs \in UNION { [1..n -> SeedFiles] : n \in 0..MaxSeedFiles } }

\* What the target does with a seed: the result and the time of the run.
SeedOutcomes == { [ res |-> r.res, exec_time |-> r.exec_time ] : r \in EngineRuns }

InitCorpus ==
    /\ MonitorInit /\ SchedulerInit /\ EngineInit /\ ExecutorInit
    /\ loop_pc = "start"
    /\ pause_requested = FALSE
    /\ exit_code = NoneVal
    /\ duration_over = FALSE
    /\ for_left = 0
    /\ mutant = <<>>
    /\ sigints = 0
    /\ paused_at = [ pc |-> "none", saved |-> FALSE, execs |-> 0 ]
    /\ force_exit = FALSE
    /\ sigterms = 0
    /\ final_report = FALSE
    /\ handler_io = "none"
    /\ resume_flag = FALSE
    /\ seed_dir \in SeedDirs
    /\ file_idx = 0
    /\ FnIdle

\* load_initial_seeds up to its for loop: a directory that is absent or holds
\* no file gets the empty seed, self.scheduler.add_seed(b'', 0, 0.1).
CorpusStart ==
    /\ loop_pc = "start"
    /\ IF ~seed_dir.some \/ seed_dir.val = <<>>
       THEN /\ add_seed(<<>>, 0, 100)
            /\ loop_pc' = "while"
            /\ UNCHANGED file_idx
       ELSE /\ loop_pc' = "load"
            /\ file_idx' = 1
            /\ UNCHANGED schedVars
    /\ UNCHANGED << pause_requested, exit_code, duration_over, for_left, mutant,
                    sigints, paused_at, force_exit, sigterms, final_report,
                    handler_io, resume_flag, seed_dir, fnVars >>
    /\ UNCHANGED << monVars, engVars, execVars >>

\* Mutant of CorpusLoad: the seed file is processed as a mutant is.
CorpusLoad_AsMutant ==
    /\ loop_pc = "load"
    /\ IF file_idx > Min(Len(seed_dir.val), max_seeds)
       THEN /\ loop_pc' = "while"
            /\ UNCHANGED << file_idx, monVars, schedVars, engVars >>
       ELSE /\ \E o \in SeedOutcomes :
                   process_seed(seed_dir.val[file_idx], FALSE, o.res, o.exec_time)
            /\ file_idx' = file_idx + 1
            /\ UNCHANGED loop_pc
    /\ UNCHANGED << pause_requested, exit_code, duration_over, for_left, mutant,
                    sigints, paused_at, force_exit, sigterms, final_report,
                    handler_io, resume_flag, seed_dir, fnVars >>
    /\ UNCHANGED execVars

\* for seed_file in seed_files[:max_seeds]:
\*     self._process_seed(seed_file.read_bytes(), is_initial=True)
CorpusLoad ==
    /\ loop_pc = "load"
    /\ IF file_idx > Min(Len(seed_dir.val), max_seeds)
       THEN /\ loop_pc' = "while"
            /\ UNCHANGED << file_idx, monVars, schedVars, engVars >>
       ELSE /\ \E o \in SeedOutcomes :
                   process_seed(seed_dir.val[file_idx], TRUE, o.res, o.exec_time)
            /\ file_idx' = file_idx + 1
            /\ UNCHANGED loop_pc
    /\ UNCHANGED << pause_requested, exit_code, duration_over, for_left, mutant,
                    sigints, paused_at, force_exit, sigterms, final_report,
                    handler_io, resume_flag, seed_dir, fnVars >>
    /\ UNCHANGED execVars

NextCorpus == CorpusStart \/ CorpusLoad

SpecCorpus == InitCorpus /\ [][NextCorpus]_vars

\* The whole of fuzz_loop, initial corpus loading included, with SIGINT at any
\* step.  The seed files of PauseDirs are all the same regular seed.
PauseDirs ==
    { NoneVal } \cup
    { Some([i \in 1..n |-> <<65>>]) : n \in 0..MaxSeedFiles }

InitPause ==
    /\ MonitorInit /\ SchedulerInit /\ EngineInit /\ ExecutorInit
    /\ loop_pc = "start"
    /\ pause_requested = FALSE
    /\ exit_code = NoneVal
    /\ duration_over = FALSE
    /\ for_left = 0
    /\ mutant = <<>>
    /\ sigints = 0
    /\ paused_at = [ pc |-> "none", saved |-> FALSE, execs |-> 0 ]
    /\ force_exit = FALSE
    /\ sigterms = 0
    /\ final_report = FALSE
    /\ handler_io = "none"
    /\ resume_flag = FALSE
    /\ seed_dir \in PauseDirs
    /\ file_idx = 0
    /\ FnIdle

\* self._process_seed(mutant) as one step: the execution of the target and
\* the processing of its result.  A SIGINT of the step before it finds the
\* execution in progress.
PauseRun ==
    /\ loop_pc = "execute"
    /\ \E r \in ResumeRuns : process_seed(mutant, FALSE, r.res, r.exec_time)
    /\ loop_pc' = "for"
    /\ UNCHANGED << pause_requested, exit_code, duration_over, for_left, mutant,
                    haltVars >>
    /\ UNCHANGED execVars

NextPause ==
    \/ CorpusStart \/ CorpusLoad \/ LoopWhile \/ LoopPauseCheck \/ LoopSelect
    \/ LoopFor \/ LoopMutate \/ PauseRun \/ LoopFinalize \/ Sigint

SpecPause == InitPause /\ [][NextPause]_vars

\* The engine at rest while a function of the library is applied to
\* arguments: the state after construction, coverage on.
AtRest ==
    /\ MonitorInit /\ SchedulerInit /\ EngineInit /\ ExecutorInit
    /\ use_coverage
    /\ loop_pc = "start"
    /\ pause_requested = FALSE
    /\ exit_code = NoneVal
    /\ duration_over = FALSE
    /\ for_left = 0
    /\ mutant = <<>>
    /\ sigints = 0
    /\ paused_at = [ pc |-> "none", saved |-> FALSE, execs |-> 0 ]
    /\ force_exit = FALSE
    /\ sigterms = 0
    /\ final_report = FALSE
    /\ handler_io = "none"
    /\ resume_flag = FALSE
    /\ seed_dir = NoneVal
    /\ file_idx = 0

Rests ==
    /\ UNCHANGED << monVars, schedVars, engVars, execVars >>
    /\ UNCHANGED << loop_pc, pause_requested, exit_code, duration_over, for_left,
                    mutant, sigints, paused_at, force_exit, sigterms, final_report,
                    handler_io, resume_flag, corpusVars >>

\* ExecutionMonitor._simplify_trace applied to a trace, and again to what it
\* returned.
MaxTraceLen == 3
TraceBytes == { 0, 1, 2, 128, 255 }
SimplifyInputs == UNION { [1..n -> TraceBytes] : n \in 0..MaxTraceLen }

InitSimplify ==
    /\ AtRest
    /\ fn_name = "simplify_trace"
    /\ fn_arg \in SimplifyInputs
    /\ fn_ret = <<>>

SimplifyTrace ==
    /\ fn_name = "simplify_trace"
    /\ Len(fn_ret) < 2
    /\ fn_ret' = Append(fn_ret, simplify_trace(IF fn_ret = <<>> THEN fn_arg
                                               ELSE fn_ret[Len(fn_ret)]))
    /\ UNCHANGED << fn_name, fn_arg >>
    /\ Rests

NextSimplify == SimplifyTrace

SpecSimplify == InitSimplify /\ [][NextSimplify]_vars

\* SeedScheduler._calculate_energy applied to one seed against averages:
\* len(self.seeds) = num_seeds and the two totals are the Scheduler's, the
\* seed's fields are the function's input.
EnergyTimes == { 0, 1, 3, 4, 10, 40 }
EnergyCoverages == { 0, 1, 3, 10 }
EnergyCounts == { 0, 1, 5, 496 }
EnergyTotals == { 0, 1, 4, 10, 12, 40 }
EnergySeedCounts == { 0, 1, 2, 3, 9 }
EnergyInputs ==
    { a \in [ exec_time : EnergyTimes, coverage_bits : EnergyCoverages,
              exec_count : EnergyCounts, num_seeds : EnergySeedCounts,
              total_exec_time : EnergyTotals, total_coverage : EnergyTotals ] :
        \* with no seed held the totals are not read; otherwise they include
        \* the seed's own exec_time and coverage_bits
        IF a.num_seeds = 0
        THEN a.total_exec_time = 0 /\ a.total_coverage = 0
        ELSE a.exec_time <= a.total_exec_time
             /\ a.coverage_bits <= a.total_coverage }

InitEnergy ==
    /\ AtRest
    /\ fn_name = "calculate_energy"
    /\ fn_arg \in EnergyInputs
    /\ fn_ret = <<>>

CalculateEnergy ==
    /\ fn_name = "calculate_energy"
    /\ fn_ret = <<>>
    /\ fn_ret' = << calculate_energy(fn_arg, fn_arg.num_seeds,
                                     fn_arg.total_exec_time,
                                     fn_arg.total_coverage) >>
    /\ UNCHANGED << fn_name, fn_arg >>
    /\ Rests

NextEnergy == CalculateEnergy

SpecEnergy == InitEnergy /\ [][NextEnergy]_vars

\* The Monitor fed crashes and timeouts, with and without a coverage map in
\* the result; fn_arg keeps the calls made and fn_ret what each returned.
MaxDedupExecs == 3
DedupTraces == { Pad(<<1>>), Pad(<<3>>) }
DedupStderrs == { <<>>, <<83>>, <<84>> }
DedupCalls ==
    { c \in [ input : Inputs,
              res : [ crashed : BOOLEAN, timeout : BOOLEAN,
                      coverage : {NoneVal} \cup {Some(t) : t \in DedupTraces},
                      stderr : DedupStderrs ] ] :
        /\ c.res.crashed # c.res.timeout
        /\ c.res.coverage.some => c.res.stderr = <<>>
        /\ c.res.stderr = <<84>> => c.input = <<65>> }

DedupProcess ==
    /\ stats.total_execs < MaxDedupExecs
    /\ \E c \in DedupCalls :
        /\ process_execution(c.input, c.res)
        /\ fn_arg' = Append(fn_arg, c)
    /\ fn_name' = "process_execution"
    /\ fn_ret' = Append(fn_ret, call'.ret)
    /\ UNCHANGED << schedVars, engVars, execVars >>
    /\ UNCHANGED << loop_pc, pause_requested, exit_code, duration_over, for_left,
                    mutant, sigints, paused_at, force_exit, sigterms, final_report,
                    handler_io, resume_flag, corpusVars >>

NextDedup == DedupProcess

SpecDedup == Init /\ [][NextDedup]_vars

(***************************************************************************)
(* Mutator (src/src/components/mutator.py).  An operator gives the set of  *)
(* outcomes of a call over the values random may draw: a returned byte     *)
(* string, or an exception.  random.randint(a, b) raises ValueError on an  *)
(* empty range.                                                            *)
(***************************************************************************)
Returned(v) == [ raised |-> FALSE, val |-> v ]
Raises == [ raised |-> TRUE, val |-> <<>> ]

\* The outcomes of a body F run on a value drawn from range.
Drawn(range, F(_)) == IF range = {} THEN { Raises } ELSE UNION { F(v) : v \in range }

\* The values the model lets random draw where the code draws from a wide
\* range: the bit of a byte, the inserted byte, the arithmetic operand and
\* the entries of the three INTERESTING tables.
BitPicks == { 0, 7 }
InsertPicks == { 0, 255 }
ArithPicks == { 1, 35 }
Interesting8Picks == { 0 - 128, 0 - 1, 127 }
Interesting16Picks == { 0 - 1, 0 - 32768, 1000 }
Interesting32Picks == { 0 - 1, 0 - 2147483647 - 1, 65536, 2147483647 }

\* bytearray with data[idx] = b, idx counted from 0.
SetByte(data, idx, b) == [data EXCEPT ![idx + 1] = b]

\* struct.pack('<h', val) and struct.pack('<i', val): the n low bytes of the
\* two's complement of val, lowest first.
RECURSIVE pack(_, _)
pack(val, n) ==
    IF n = 0 THEN <<>>
    ELSE LET low == val % 256
         IN  << low >> \o pack((val - low) \div 256, n - 1)

\* data[idx:idx+Len(bs)] = bs
SetSlice(data, idx, bs) ==
    [i \in 1..Len(data) |->
        IF i > idx /\ i <= idx + Len(bs) THEN bs[i - idx] ELSE data[i]]

RECURSIVE bit_flip(_, _)
bit_flip(data, flip_count) ==
    IF Len(data) = 0 THEN { Returned(data) }
    ELSE IF flip_count = 0 THEN { Returned(data) }
    ELSE Drawn({ p \in 0..(Len(data) * 8 - 1) : p % 8 \in BitPicks },
               LAMBDA bit_pos :
                   bit_flip(SetByte(data, bit_pos \div 8,
                                    BitXor(data[(bit_pos \div 8) + 1], 2^(bit_pos % 8))),
                            flip_count - 1))

RECURSIVE byte_flip(_, _)
byte_flip(data, flip_count) ==
    IF Len(data) = 0 THEN { Returned(data) }
    ELSE IF flip_count = 0 THEN { Returned(data) }
    ELSE Drawn(0..(Len(data) - 1),
               LAMBDA idx :
                   byte_flip(SetByte(data, idx, BitXor(data[idx + 1], 255)),
                             flip_count - 1))

interesting_values(data) ==
    IF Len(data) = 0 THEN { Returned(data) }
    ELSE UNION { IF choice = 0 /\ Len(data) >= 1
                 THEN Drawn(0..(Len(data) - 1), LAMBDA idx :
                          { Returned(SetByte(data, idx, BitAnd(val % 256, 255)))
                              : val \in Interesting8Picks })
                 ELSE IF choice = 1 /\ Len(data) >= 2
                 THEN Drawn(0..(Len(data) - 2), LAMBDA idx :
                          { Returned(SetSlice(data, idx, pack(val, 2)))
                              : val \in Interesting8Picks \cup Interesting16Picks })
                 ELSE IF Len(data) >= 4
                 THEN Drawn(0..(Len(data) - 4), LAMBDA idx :
                          { Returned(SetSlice(data, idx, pack(val, 4)))
                              : val \in Interesting8Picks \cup Interesting16Picks
                                          \cup Interesting32Picks })
                 ELSE { Returned(data) }
                 : choice \in 0..2 }

\* The size from which insert leaves the data alone.
InsertLimit == 102400

\* Mutant of insert: two bytes are inserted.
insert_Two(data) ==
    IF Len(data) >= InsertLimit THEN { Returned(data) }
    ELSE Drawn(0..Len(data), LAMBDA insert_pos :
             { Returned(SubSeq(data, 1, insert_pos) \o << insert_byte, insert_byte >>
                            \o SubSeq(data, insert_pos + 1, Len(data)))
                 : insert_byte \in InsertPicks })

insert(data) ==
    IF Len(data) >= InsertLimit THEN { Returned(data) }
    ELSE Drawn(0..Len(data), LAMBDA insert_pos :
             { Returned(SubSeq(data, 1, insert_pos) \o << insert_byte >>
                            \o SubSeq(data, insert_pos + 1, Len(data)))
                 : insert_byte \in InsertPicks })

\* Mutant of delete: no test for the empty input.
delete_Unguarded(data) ==
    Drawn(0..(Len(data) - 1), LAMBDA del_pos :
        { Returned(SubSeq(data, 1, del_pos) \o SubSeq(data, del_pos + 2, Len(data))) })

delete(data) ==
    IF Len(data) = 0 THEN { Returned(data) }
    ELSE Drawn(0..(Len(data) - 1), LAMBDA del_pos :
             { Returned(SubSeq(data, 1, del_pos)
                            \o SubSeq(data, del_pos + 2, Len(data))) })

arithmetic(data) ==
    IF Len(data) = 0 THEN { Returned(data) }
    ELSE Drawn(0..(Len(data) - 1), LAMBDA idx :
             UNION { { Returned(SetByte(data, idx, (data[idx + 1] + val) % 256)),
                       Returned(SetByte(data, idx, (data[idx + 1] - val) % 256)) }
                     : val \in ArithPicks })

splice(data1, data2) ==
    IF Len(data1) = 0 THEN { Returned(data2) }
    ELSE IF Len(data2) = 0 THEN { Returned(data1) }
    ELSE Drawn(0..Len(data1), LAMBDA split_point1 :
             { Returned(SubSeq(data1, 1, split_point1)
                            \o SubSeq(data2, split_point2 + 1, Len(data2)))
                 : split_point2 \in 0..Len(data2) })

\* The operators called on data as Mutator.mutate and havoc call them, with
\* the default flip_count = 1.
SingleOps == { "bit_flip", "byte_flip", "interesting_values", "insert", "delete",
               "arithmetic" }

Operator(name, data) ==
    CASE name = "bit_flip" -> bit_flip(data, 1)
      [] name = "byte_flip" -> byte_flip(data, 1)
      [] name = "interesting_values" -> interesting_values(data)
      [] name = "insert" -> insert(data)
      [] name = "delete" -> delete(data)
      [] name = "arithmetic" -> arithmetic(data)

\* The calls of the model: the operator, its data, the other seed of a
\* splice and the iterations of a havoc.
MaxInputLen == 1
MaxIterations == 2
MutatorBytes == { 65, 255 }
MutatorData ==
    UNION { [1..n -> MutatorBytes] : n \in 0..MaxInputLen } \cup { << 65, 66, 67, 68 >> }
OtherData == { <<>>, << 66, 66 >> }

MutatorCalls ==
    [ data : MutatorData, other : OtherData, iterations : 0..MaxIterations ]

\* fn_ret while the call runs and when it is over: the local data, the havoc
\* iterations done, and how the call ended.
Running(data, i) == [ pc |-> "running", val |-> data, i |-> i ]

InitMutator ==
    /\ AtRest
    /\ fn_name \in SingleOps \cup { "splice", "havoc" }
    /\ fn_arg \in MutatorCalls
    /\ fn_ret = Running(fn_arg.data, 0)

Ended(o, i) ==
    [ pc |-> IF o.raised THEN "raised" ELSE "returned", val |-> o.val, i |-> i ]

\* One of the six single operators is called on the data.
MutateSingle ==
    /\ fn_name \in SingleOps
    /\ fn_ret.pc = "running"
    /\ \E o \in Operator(fn_name, fn_arg.data) : fn_ret' = Ended(o, 0)
    /\ UNCHANGED << fn_name, fn_arg >>
    /\ Rests

MutateSplice ==
    /\ fn_name = "splice"
    /\ fn_ret.pc = "running"
    /\ \E o \in splice(fn_arg.data, fn_arg.other) : fn_ret' = Ended(o, 0)
    /\ UNCHANGED << fn_name, fn_arg >>
    /\ Rests

\* One iteration of havoc: a mutation drawn from the six is applied to the
\* data; if it raises, the data stay as they are (except: pass).
HavocIterate ==
    /\ fn_name = "havoc"
    /\ fn_ret.pc = "running"
    /\ fn_ret.i < fn_arg.iterations
    /\ \E mutation_func \in SingleOps :
           \E o \in Operator(mutation_func, fn_ret.val) :
               fn_ret' = Running(IF o.raised THEN fn_ret.val ELSE o.val, fn_ret.i + 1)
    /\ UNCHANGED << fn_name, fn_arg >>
    /\ Rests

\* havoc returns bytes(data) after the last iteration.
HavocReturn ==
    /\ fn_name = "havoc"
    /\ fn_ret.pc = "running"
    /\ fn_ret.i >= fn_arg.iterations
    /\ fn_ret' = Ended(Returned(fn_ret.val), fn_ret.i)
    /\ UNCHANGED << fn_name, fn_arg >>
    /\ Rests

NextMutator == MutateSingle \/ MutateSplice \/ HavocIterate \/ HavocReturn

SpecMutator == InitMutator /\ [][NextMutator]_vars

\* The campaign with both signals: SIGINT and SIGTERM may arrive at any point.
NextSignals ==
    \/ LoopStart \/ LoopWhile \/ LoopPauseCheck \/ LoopSelect \/ LoopFor
    \/ LoopMutate \/ LoopExecute \/ LoopProcess \/ LoopFinalize \/ DurationEnds
    \/ Sigint \/ Sigterm

SpecSignals == Init /\ [][NextSignals]_vars

\* A campaign of runs: a run executes mutants until it is paused, saves its
\* checkpoint and ends (fuzz_loop: _save_checkpoint, break, _finalize); the
\* next run is a new process started with --resume-from on that checkpoint.
MaxCampaignExecs == 3

InRun == eng_call.op \notin { "save", "restart" }

CampaignProcess ==
    /\ InRun
    /\ now < MaxCampaignExecs
    /\ \E r \in ResumeRuns : process_seed(r.input, FALSE, r.res, r.exec_time)
    /\ UNCHANGED << execVars, loopVars >>

CampaignSave == InRun /\ Save

\* The paused run has ended and the engine is started again: Fuzzer.__init__
\* builds a new Monitor and a new Scheduler; the output directory and the
\* checkpoint stay as they are on disk.
Restart ==
    /\ eng_call.op = "save"
    /\ virgin_bits' = IF use_coverage THEN Some(FreshBitmap) ELSE NoneVal
    /\ virgin_crash' = IF use_coverage THEN Some(FreshBitmap) ELSE NoneVal
    /\ virgin_tmout' = IF use_coverage THEN Some(FreshBitmap) ELSE NoneVal
    /\ crash_hashes' = {}
    /\ hang_hashes' = {}
    /\ stats' = MonitorStats0
    /\ call' = NoCall
    /\ seeds' = <<>>
    /\ total_exec_time' = 0
    /\ total_coverage' = 0
    /\ sched_call' = SchedCall("none", NoSeedRet, NoSeed, 0)
    /\ calc' = <<>>
    /\ total_memory' = 0
    /\ fifo_index' = 0
    /\ runtime' = [ start_time |-> now, last_snapshot_time |-> now,
                    last_coverage |-> 0, last_execs |-> 0 ]
    /\ eng_call' = EngCall("restart", FALSE, FALSE)
    /\ UNCHANGED << use_coverage, crash_files, hang_files, queue_files >>
    /\ UNCHANGED << strategy, now, ckpt, at_save, CONFIG >>
    /\ UNCHANGED << execVars, loopVars >>

\* Mutant of CampaignLoad: the new run does not load the checkpoint.
CampaignLoad_Fresh ==
    /\ eng_call.op = "restart"
    /\ eng_call' = EngCall("load", FALSE, FALSE)
    /\ UNCHANGED << monVars, schedVars, strategy, total_memory, fifo_index,
                    runtime, now, ckpt, at_save, CONFIG >>
    /\ UNCHANGED << execVars, loopVars >>

\* Fuzzer.__init__ of the new run: self._load_checkpoint(resume_from).
CampaignLoad == eng_call.op = "restart" /\ Load

NextCampaign == CampaignProcess \/ CampaignSave \/ Restart \/ CampaignLoad

SpecCampaign == Init /\ [][NextCampaign]_vars

\* The campaign against the wall clock: time also passes between executions
\* and while the engine is stopped.  fn_arg keeps the elapsed time
\* time.time() - self.start_time of the run at its last save.
MaxClock == 4

ClockProcess ==
    /\ InRun
    /\ now < MaxClock
    /\ \E r \in ResumeRuns : process_seed(r.input, FALSE, r.res, r.exec_time)
    /\ UNCHANGED << execVars, loopVars >>

ClockPasses ==
    /\ now < MaxClock
    /\ now' = now + 1
    /\ UNCHANGED << monVars, schedVars, execVars, loopVars >>
    /\ UNCHANGED << strategy, total_memory, fifo_index, runtime, ckpt, at_save,
                    eng_call, CONFIG >>

ClockSave ==
    /\ InRun
    /\ save
    /\ fn_name' = "save"
    /\ fn_arg' = << now - runtime.start_time >>
    /\ UNCHANGED fn_ret
    /\ UNCHANGED execVars
    /\ UNCHANGED << loop_pc, pause_requested, exit_code, duration_over, for_left,
                    mutant, sigints, paused_at, force_exit, sigterms, final_report,
                    handler_io, resume_flag, corpusVars >>

NextClock == ClockProcess \/ ClockPasses \/ ClockSave \/ Restart \/ CampaignLoad

SpecClock == Init /\ [][NextClock]_vars

\* The campaign with inputs of every size, restarted with another
\* --max-seed-size on the command line.  fn_arg keeps the inputs handed to
\* _process_seed and fn_ret what each call returned.
MaxSizeExecs == 2
OtherSeedSize == MaxSeedSize - 1
FullSize == [i \in 1..MaxSeedSize |-> 66]
SizeInputs == { <<65>>, FullSize, Oversized }
SizeOutcomes ==
    { [ res |-> Result(FALSE, FALSE, Some(Pad(<<1>>))), exec_time |-> 1 ],
      [ res |-> Result(TRUE, FALSE, NoneVal), exec_time |-> 1 ] }

SizeProcess ==
    /\ InRun
    /\ Len(fn_arg) < MaxSizeExecs
    /\ \E d \in SizeInputs, o \in SizeOutcomes, is_initial \in BOOLEAN :
        /\ process_seed(d, is_initial, o.res, o.exec_time)
        /\ fn_arg' = Append(fn_arg, d)
    /\ fn_name' = "process_seed"
    /\ fn_ret' = Append(fn_ret, eng_call'.ret)
    /\ UNCHANGED execVars
    /\ UNCHANGED << loop_pc, pause_requested, exit_code, duration_over, for_left,
                    mutant, sigints, paused_at, force_exit, sigterms, final_report,
                    handler_io, resume_flag, corpusVars >>

\* main() writes the command line into CONFIG before it builds the Fuzzer.
Reconfigure ==
    /\ eng_call.op = "restart"
    /\ CONFIG.max_seed_size # OtherSeedSize
    /\ CONFIG' = [ CONFIG EXCEPT !.max_seed_size = OtherSeedSize ]
    /\ UNCHANGED << strategy, total_memory, fifo_index, runtime, now, ckpt, at_save,
                    eng_call >>
    /\ UNCHANGED << monVars, schedVars, execVars, loopVars >>

NextSize == SizeProcess \/ CampaignSave \/ Restart \/ Reconfigure \/ CampaignLoad

SpecSize == Init /\ [][NextSize]_vars

\* The campaign fed crashes and timeouts, with and without a coverage map,
\* saved, restarted and resumed.  fn_arg keeps the calls of _process_seed
\* over the whole campaign and fn_ret what the Monitor returned for each.
MaxRoundExecs == 3

RoundProcess ==
    /\ InRun
    /\ Len(fn_arg) < MaxRoundExecs
    /\ \E c \in DedupCalls :
        /\ process_seed(c.input, FALSE, c.res, 1)
        /\ fn_arg' = Append(fn_arg, c)
    /\ fn_name' = "process_seed"
    /\ fn_ret' = Append(fn_ret, call'.ret)
    /\ UNCHANGED execVars
    /\ UNCHANGED << loop_pc, pause_requested, exit_code, duration_over, for_left,
                    mutant, sigints, paused_at, force_exit, sigterms, final_report,
                    handler_io, resume_flag, corpusVars >>

NextRound == RoundProcess \/ CampaignSave \/ Restart \/ CampaignLoad

SpecRound == Init /\ [][NextRound]_vars

\* The campaign with the checkpoint written in the two steps of write_text,
\* so that a SIGINT can arrive between them.
NextSave ==
    \/ LoopStart \/ LoopWhile \/ LoopPauseOpen \/ LoopPauseWrite \/ LoopSelect
    \/ LoopFor \/ LoopMutate \/ LoopExecute \/ LoopProcess \/ LoopFinalize
    \/ DurationEnds \/ Sigint

SpecSave == Init /\ [][NextSave]_vars

\* The checkpoint files a start may find at the path of --resume-from: none,
\* or a checkpoint of an engine that had no seed yet, in each version.
StartupFiles ==
    { NoFile } \cup { [CheckpointState EXCEPT !.version = v] : v \in OtherVersions }

\* The engine from its construction on, started with or without
\* --resume-from, and left alone by signals.
InitStartup ==
    /\ MonitorInit /\ SchedulerInit
    /\ strategy = "energy"
    /\ total_memory = 0
    /\ fifo_index = 0
    /\ now = 0
    /\ runtime = [ start_time |-> 0, last_snapshot_time |-> 0,
                   last_coverage |-> 0, last_execs |-> 0 ]
    /\ at_save = [ some |-> FALSE ]
    /\ eng_call = EngCall("none", FALSE, FALSE)
    /\ CONFIG = [ timeout |-> DefaultTimeout, max_seed_size |-> MaxSeedSize ]
    /\ ckpt \in StartupFiles
    /\ ExecutorInit
    /\ loop_pc = "new"
    /\ pause_requested = FALSE
    /\ exit_code = NoneVal
    /\ duration_over = FALSE
    /\ for_left = 0
    /\ mutant = <<>>
    /\ sigints = 0
    /\ paused_at = [ pc |-> "none", saved |-> FALSE, execs |-> 0 ]
    /\ force_exit = FALSE
    /\ sigterms = 0
    /\ final_report = FALSE
    /\ handler_io = "none"
    /\ resume_flag \in BOOLEAN
    /\ seed_dir = NoneVal
    /\ file_idx = 0
    /\ FnIdle

NextStartup ==
    \/ Construct \/ LoopStart \/ LoopWhile \/ LoopPauseCheck \/ LoopSelect
    \/ LoopFor \/ LoopMutate \/ LoopExecute \/ LoopProcess \/ LoopFinalize
    \/ DurationEnds

SpecStartup == InitStartup /\ [][NextStartup]_vars

(***************************************************************************)
(* Properties of the Monitor (checked under SpecMon, where every step is   *)
(* one process_execution call whose arguments and result are call').       *)
(***************************************************************************)
Bit(x, k) == (x \div (2 ^ k)) % 2

\* Bits that are set in the trace and still set in the virgin map.
NewBitsIn(trace, virgin) ==
    \E i \in 1..Len(trace) :
        trace[i] # 0 /\ \E k \in 0..7 : Bit(trace[i], k) = 1 /\ Bit(virgin[i], k) = 1

\* new = old AND NOT trace, bit by bit.
ClearedBy(trace, old, new) ==
    /\ Len(new) = Len(old)
    /\ \A i \in 1..Len(old), k \in 0..7 :
           Bit(new[i], k) = IF i <= Len(trace) /\ Bit(trace[i], k) = 1 THEN 0
                            ELSE Bit(old[i], k)

\* The simplified form of a trace as the spec's table gives it.
SimplifiedOf(trace) == [i \in 1..Len(trace) |-> IF trace[i] = 0 THEN 1 ELSE 128]

\* The class of a call and the trace it hands to has_new_bits.
IsCrashCall(c) == c.op = "process" /\ c.crashed
IsHangCall(c) == c.op = "process" /\ ~c.crashed /\ c.timeout
IsNormalCall(c) == c.op = "process" /\ ~c.crashed /\ ~c.timeout
OnCoveragePath(c) == use_coverage /\ Truthy(c.coverage)
EffectiveTrace(c) ==
    IF IsNormalCall(c) THEN c.coverage.val ELSE SimplifiedOf(c.coverage.val)

\* The virgin map a call of this class consults, before and after the step.
VirginOf(c) ==
    IF IsCrashCall(c) THEN virgin_crash
    ELSE IF IsHangCall(c) THEN virgin_tmout ELSE virgin_bits
VirginAfter(c) ==
    IF IsCrashCall(c) THEN virgin_crash'
    ELSE IF IsHangCall(c) THEN virgin_tmout' ELSE virgin_bits'

\* C2: with coverage enabled, a crash whose simplified trace has no bit still
\* set in virgin_crash counts in total_crashes, is not saved, writes no file
\* and is reported not interesting; so does a crash that follows a crash with
\* the same simplified trace.
C2_DuplicateCrashStep ==
    (IsCrashCall(call') /\ OnCoveragePath(call')) =>
        LET simp == SimplifiedOf(call'.coverage.val)
            duplicate ==
                \/ ~NewBitsIn(simp, virgin_crash.val)
                \/ /\ IsCrashCall(call) /\ Truthy(call.coverage)
                   /\ SimplifiedOf(call.coverage.val) = simp
        IN  duplicate =>
                /\ stats'.total_crashes = stats.total_crashes + 1
                /\ stats'.saved_crashes = stats.saved_crashes
                /\ crash_files' = crash_files
                /\ call'.ret = FALSE
C2_DuplicateCrashDropped == [][C2_DuplicateCrashStep]_vars

\* Two crashes with coverage were processed, the second a duplicate: one file.
C2_Witness ==
    /\ use_coverage /\ IsCrashCall(call) /\ Truthy(call.coverage) /\ ~call.ret
    /\ stats.total_crashes = 2 /\ stats.saved_crashes = 1
    /\ Cardinality(crash_files) = 1

\* C3: has_new_bits returns true exactly when some trace byte is non-zero and
\* shares a bit with the virgin byte before the call, and leaves
\* virgin = old AND NOT trace; a repeated trace, or one whose bits were all
\* consumed before, gives false.
C3_HasNewBitsStep ==
    (call'.op = "process" /\ OnCoveragePath(call')) =>
        LET t == EffectiveTrace(call')
            old == VirginOf(call').val
            new == VirginAfter(call').val
            consumed == \A i \in 1..Len(t), k \in 0..7 :
                            Bit(t[i], k) = 1 => Bit(old[i], k) = 0
            repeated == /\ call.op = "process" /\ Truthy(call.coverage)
                        /\ Classify(call) = Classify(call')
                        /\ EffectiveTrace(call) = t
        IN  /\ call'.ret = NewBitsIn(t, old)
            /\ ClearedBy(t, old, new)
            /\ (consumed \/ repeated) => call'.ret = FALSE
C3_HasNewBits == [][C3_HasNewBitsStep]_vars

\* A normal run whose trace <<1, 0..>> is a subset of the bits consumed by an
\* earlier trace <<3, 0..>> was found to have no new bits.
C3_Witness ==
    /\ use_coverage /\ IsNormalCall(call) /\ call.coverage = Some(Pad(<<1>>))
    /\ ~call.ret /\ virgin_bits.val[1] = 252

\* C4: over process calls the set bits of every virgin_bits byte never grow
\* and total_coverage_bits never decreases.
C4_VirginShrinksStep ==
    /\ virgin_bits.some =>
           /\ virgin_bits'.some
           /\ \A i \in 1..Len(virgin_bits.val), k \in 0..7 :
                  Bit(virgin_bits'.val[i], k) <= Bit(virgin_bits.val[i], k)
    /\ stats'.total_coverage_bits >= stats.total_coverage_bits
C4_VirginBitsMonotone == [][C4_VirginShrinksStep]_vars

\* Two normal runs each cleared bits of virgin_bits.
C4_Witness ==
    /\ use_coverage /\ stats.interesting_inputs = 2
    /\ stats.total_coverage_bits >= 2 /\ virgin_bits.val # FreshBitmap

\* C5: total_crashes >= saved_crashes >= 0 and total_hangs >= saved_hangs >= 0
\* in every state, and none of the four counters decreases in a call.
C5_Ordered(st) ==
    /\ st.total_crashes >= st.saved_crashes /\ st.saved_crashes >= 0
    /\ st.total_hangs >= st.saved_hangs /\ st.saved_hangs >= 0
C5_CountersStep ==
    /\ C5_Ordered(stats')
    /\ stats'.total_crashes >= stats.total_crashes
    /\ stats'.saved_crashes >= stats.saved_crashes
    /\ stats'.total_hangs >= stats.total_hangs
    /\ stats'.saved_hangs >= stats.saved_hangs
C5_Counters == C5_Ordered(stats) /\ [][C5_CountersStep]_vars

\* A saved and a duplicate hang, and a saved crash, were counted.
C5_Witness ==
    /\ stats.total_hangs = 2 /\ stats.saved_hangs = 1
    /\ stats.total_crashes = 1 /\ stats.saved_crashes = 1

\* C6: a call is classed crash, else timeout, else normal; it increments at
\* most one of total_crashes, total_hangs and interesting_inputs, the one of
\* its class, and leaves the virgin bitmaps of the other classes unchanged.
C6_OneClassStep ==
    call'.op = "process" =>
        /\ IsCrashCall(call') =>
               /\ stats'.total_crashes = stats.total_crashes + 1
               /\ stats'.total_hangs = stats.total_hangs
               /\ stats'.interesting_inputs = stats.interesting_inputs
               /\ virgin_bits' = virgin_bits /\ virgin_tmout' = virgin_tmout
        /\ IsHangCall(call') =>
               /\ stats'.total_hangs = stats.total_hangs + 1
               /\ stats'.total_crashes = stats.total_crashes
               /\ stats'.interesting_inputs = stats.interesting_inputs
               /\ virgin_bits' = virgin_bits /\ virgin_crash' = virgin_crash
        /\ IsNormalCall(call') =>
               /\ stats'.total_crashes = stats.total_crashes
               /\ stats'.total_hangs = stats.total_hangs
               /\ stats'.interesting_inputs \in
                      { stats.interesting_inputs, stats.interesting_inputs + 1 }
               /\ virgin_crash' = virgin_crash /\ virgin_tmout' = virgin_tmout
C6_OneClassPerCall == [][C6_OneClassStep]_vars

\* A result with crashed and timeout both set was counted as a crash only,
\* and consumed virgin_crash alone.
C6_Witness ==
    /\ use_coverage /\ call.op = "process" /\ call.crashed /\ call.timeout
    /\ call.ret /\ stats.total_crashes = 1 /\ stats.total_hangs = 0
    /\ virgin_crash.val # FreshBitmap /\ virgin_tmout.val = FreshBitmap

(***************************************************************************)
(* Properties of the Scheduler (checked under SpecSched and SpecDecay).    *)
(***************************************************************************)
Held(h) == { h[i] : i \in 1..Len(h) }
DataCount(h, d) == Cardinality({ i \in 1..Len(h) : h[i].data = d })
AllData == Inputs \cup { <<>>, <<66, 65>> }

\* C7: a pop on a non-empty Scheduler returns a seed whose energy before the
\* pop was maximal, increments that seed's exec_count alone by one and
\* re-inserts it: the other seeds, the number of seeds and the data held stay
\* the same.  A pop on an empty Scheduler returns none and changes nothing.
C7_PopStep ==
    sched_call'.op = "select_next" =>
        IF seeds = <<>>
        THEN /\ ~sched_call'.ret.some
             /\ seeds' = seeds
             /\ total_exec_time' = total_exec_time
             /\ total_coverage' = total_coverage
        ELSE LET r == sched_call'.ret.val
             IN  /\ sched_call'.ret.some
                 /\ \E old \in Held(seeds) :
                        /\ old.id = r.id
                        /\ \A s \in Held(seeds) : RatLeq(s.energy, old.energy)
                        /\ r.exec_count = old.exec_count + 1
                        /\ r.data = old.data
                        /\ r.coverage_bits = old.coverage_bits
                        /\ r.exec_time = old.exec_time
                        /\ Held(seeds') = (Held(seeds) \ {old}) \cup {r}
                 /\ Len(seeds') = Len(seeds)
                 /\ \A d \in AllData : DataCount(seeds', d) = DataCount(seeds, d)
C7_PopReturnsMax == [][C7_PopStep]_vars

\* A pop among three seeds returned a seed for the second time.
C7_Witness ==
    /\ sched_call.op = "select_next" /\ sched_call.ret.some
    /\ Len(seeds) = 3 /\ sched_call.ret.val.exec_count = 2
    /\ \E s \in Held(seeds) : RatLess(s.energy, sched_call.prev.energy)

\* C8: every seed held has 1 <= energy <= 10000.
C8_EnergyInRange ==
    \A s \in Held(seeds) :
        RatLeq(Rat(1, 1), s.energy) /\ RatLeq(s.energy, Rat(10000, 1))

\* C9 as stated: the stored energy of every seed held equals the energy
\* function on its fields and on the Scheduler's current averages.
C9_EnergyOfCurrentAverages ==
    \A s \in Held(seeds) :
        RatEq(s.energy,
              calculate_energy(s, Len(seeds) - 1, total_exec_time, total_coverage))

\* C9 as amended: the stored energy of every seed held equals the energy
\* function on its current exec_time, coverage_bits and exec_count and on the
\* averages in force when the seed was last inserted or re-inserted.
C9_EnergyOfInsertionAverages ==
    \A s \in Held(seeds) :
        LET c == calc[s.id]
        IN  c.n >= 0 => RatEq(s.energy, calculate_energy(s, c.n, c.tet, c.tcov))

\* A seed selected twice is held together with two seeds pushed afterwards,
\* and its energy is not the one the current averages give.
C9_Witness ==
    /\ Len(seeds) = 3
    /\ \E s \in Held(seeds) :
           /\ s.exec_count = 2 /\ calc[s.id].n = 0
           /\ ~RatEq(s.energy, calculate_energy(s, 2, total_exec_time, total_coverage))

DataOf(h) == { h[i].data : i \in 1..Len(h) }

\* C1: after a successful load the engine equals the engine as it was at the
\* save that wrote the checkpoint: the six Monitor counters, the three virgin
\* bitmaps byte for byte, the multiset of seed data, and the recomputed
\* total_coverage_bits.
C1_SaveLoadRoundTrip ==
    (eng_call.op = "load" /\ eng_call.ret) =>
        /\ at_save.some
        /\ stats.total_execs = at_save.stats.total_execs
        /\ stats.total_crashes = at_save.stats.total_crashes
        /\ stats.total_hangs = at_save.stats.total_hangs
        /\ stats.saved_crashes = at_save.stats.saved_crashes
        /\ stats.saved_hangs = at_save.stats.saved_hangs
        /\ stats.interesting_inputs = at_save.stats.interesting_inputs
        /\ virgin_bits = at_save.virgin_bits
        /\ virgin_crash = at_save.virgin_crash
        /\ virgin_tmout = at_save.virgin_tmout
        /\ Len(seeds) = Len(at_save.seeds)
        /\ \A d \in DataOf(seeds) \cup DataOf(at_save.seeds) :
               DataCount(seeds, d) = DataCount(at_save.seeds, d)
        /\ stats.total_coverage_bits = at_save.stats.total_coverage_bits

\* A checkpoint holding a seed and a consumed virgin_bits was loaded into an
\* engine whose counters had moved on since the save.
C1_Witness ==
    /\ eng_call.op = "load" /\ eng_call.ret /\ eng_call.differed
    /\ use_coverage
    /\ Len(seeds) >= 1
    /\ virgin_bits # Some(FreshBitmap)
    /\ stats.total_coverage_bits > 0

\* C11: no seed starves.  Once the seeds held are fixed and pop is called
\* again and again, every seed held is returned by some pop, and returned
\* again after that.
C11_NoStarvation ==
    (SumExecCount(seeds) >= 1) ~> (\A s \in Held(seeds) : s.exec_count >= 2)

\* Two seeds of different energy have both been returned twice, one of them
\* more often than the other while the other waited.
C11_Witness ==
    /\ Len(seeds) = 2
    /\ \A s \in Held(seeds) : s.exec_count >= 2
    /\ \E s, t \in Held(seeds) : s.exec_count >= t.exec_count + 3

\* C12: under the FIFO strategy successive pops return the seeds in the
\* order in which they were pushed, wrapping around after the last one: the
\* first pop returns the seed pushed first, a pop that follows a pop returns
\* the seed pushed next after the one returned before (the first one after
\* the last), and every pop increments the returned seed's exec_count by 1.
C12_FifoStep ==
    (strategy = "fifo" /\ sched_call'.op = "select_next" /\ seeds # <<>>) =>
        LET r == sched_call'.ret.val
        IN  /\ sched_call'.ret.some
            /\ \E old \in Held(seeds) :
                   old.id = r.id /\ r.exec_count = old.exec_count + 1
            /\ SumExecCount(seeds) = 0 => r.id = 1
            /\ (sched_call.op = "select_next" /\ sched_call.ret.some)
                   => r.id = (sched_call.ret.val.id % Len(seeds)) + 1
C12_FifoOrder == [][C12_FifoStep]_vars

\* Sum of len(data) over the seeds held.
MemoryOf(h) == SumSeq([i \in 1..Len(h) |-> Len(h[i].data)])

\* C13: after every push the number of seeds held is at most max_seeds and
\* the sum of their data lengths is at most max_seeds_memory.
C13_CapacityAfterPush ==
    sched_call.op = "add_seed" =>
        /\ Len(seeds) <= max_seeds
        /\ MemoryOf(seeds) <= max_seeds_memory

\* C14: in every reachable state total_memory equals the sum of len(data)
\* over the seeds held.
C14_TotalMemory == total_memory = MemoryOf(seeds)


(***************************************************************************)
(* Properties of the Executor (checked under SpecExec).                    *)
(***************************************************************************)
\* The events of ex_log, as a set.
Logged == { ex_log[i] : i \in 1..Len(ex_log) }

\* Event a is logged, and event b is logged after it.
LoggedBefore(a, b) ==
    \E i, j \in 1..Len(ex_log) : i < j /\ ex_log[i] = a /\ ex_log[j] = b

\* C15: when execute has returned (normal completion, timeout or internal
\* exception), no process of the target's process group is alive, background
\* children included.
C15_NoProcessLeft == ex_pc = "done" => GroupAlive = 0

\* execute has returned the result of a target that ended by itself after it
\* had started a background child.
C15_Witness ==
    /\ ex_pc = "done"
    /\ "fork" \in Logged
    /\ result = Some(ExecutionResult(0, FALSE, FALSE, "output", ReadCoverage))


\* The result of a timeout.
TimeoutResult == ExecutionResult(0 - 1, FALSE, TRUE, "Execution timeout", ReadCoverage)

\* C16: if the target has not ended when the deadline passes, the Executor
\* sends SIGKILL to the whole process group, then reaps the child, and only
\* then returns, with timeout = True, crashed = False and return_code = -1;
\* so execute returns even if the target never ends by itself.
C16_TimeoutKillReapReturn ==
    (ex_pc = "tmo_kill" /\ proc_state = "running")
        ~> /\ ex_pc = "done"
           /\ result = Some(TimeoutResult)
           /\ LoggedBefore("killpg", "reap")
           /\ LoggedBefore("reap", "close")
           /\ GroupAlive = 0

\* execute has returned the timeout result for a target that was killed
\* while it ran, with a background child.
C16_Witness ==
    /\ ex_pc = "done"
    /\ result = Some(TimeoutResult)
    /\ returncode = 0 - SIGKILL
    /\ "fork" \in Logged


C18_FailureIsAResult ==
    /\ ex_pc # "raised"
    /\ (ex_pc = "done" /\ proc = "none") =>
           /\ result \in { Some(ExecutionResult(0 - 1, TRUE, FALSE, msg, "none")) :
                              msg \in { "Failed to write input", "exception" } }
           /\ GroupAlive = 0
           /\ handles = {}


(***************************************************************************)
(* Properties of the fuzz loop under SIGINT (checked under SpecLoop).      *)
(***************************************************************************)
\* C19: after a single SIGINT that arrived while the fuzz loop ran, wherever
\* in the loop it arrived, no further seed is popped, no further mutant is
\* executed, and the engine exits only cleanly (status 0, no execution cut
\* short) and with a checkpoint saved.
C19_PauseStep ==
    (pause_requested /\ sigints = 1 /\ sigints' = 1 /\ InLoop(paused_at.pc)) =>
        /\ SumExecCount(seeds') = SumExecCount(seeds)
        /\ ~(loop_pc = "mutate" /\ loop_pc' = "execute")
        /\ loop_pc' = "exited" =>
               /\ exit_code' = Some(0)
               /\ ex_pc' \in { "idle", "done" }
               /\ ckpt'.some
C19_SinglePause == [][C19_PauseStep]_vars


\* C20: when a second SIGINT arrives while the first pause request is pending
\* (its checkpoint not yet saved), the engine exits at once: no process of
\* the target's group is left alive and no checkpoint is written.
C20_ForcedExit ==
    (exit_code = Some(1) /\ sigints = 2 /\ ~paused_at.saved) =>
        /\ loop_pc = "exited"
        /\ GroupAlive = 0
        /\ ~ckpt.some

\* ---------------------------------------------------------------------------
\* C21: the first SIGTERM is handled as pause-and-exit: the handler requests
\* the pause and returns, so the engine is not terminated from inside the
\* handler and the main loop goes on to its next poll, where the checkpoint
\* is saved.
C21_SigtermStep ==
    (sigterms = 0 /\ sigterms' = 1) =>
        /\ pause_requested'
        /\ loop_pc' = loop_pc
        /\ exit_code' = exit_code

C21_PauseAndExit == [][C21_SigtermStep]_vars

\* ---------------------------------------------------------------------------
\* C22: a step of the SIGINT or the SIGTERM handler changes nothing but the
\* pause and force-exit flags: no file is written (statistics, final report,
\* checkpoint) and no resource is freed (the target's process group, the
\* executor's handles), and the main loop stays where it was.
C22_HandlerStep ==
    (sigints' # sigints \/ sigterms' # sigterms) =>
        /\ UNCHANGED << monVars, schedVars, engVars, execVars >>
        /\ UNCHANGED << loop_pc, exit_code, duration_over, for_left, mutant >>
        /\ UNCHANGED << final_report, handler_io >>

C22_HandlersOnlySetFlags == [][C22_HandlerStep]_vars

\* ---------------------------------------------------------------------------
\* C23: a load whose checkpoint file is missing, or carries a version below 1
\* or above CHECKPOINT_VERSION, is refused: it returns False and leaves the
\* engine as it was (the Monitor's counters and virgin bitmaps, the
\* Scheduler's seeds and totals, the runtime anchors and CONFIG).
Refusable == ~ckpt.some \/ ckpt.version < 1 \/ ckpt.version > CHECKPOINT_VERSION

C23_RefusedStep ==
    (eng_call'.op = "load" /\ eng_call' # eng_call /\ Refusable) =>
        /\ ~eng_call'.ret
        /\ UNCHANGED << stats, virgin_bits, virgin_crash, virgin_tmout >>
        /\ UNCHANGED << seeds, total_exec_time, total_coverage, strategy,
                        total_memory, fifo_index >>
        /\ UNCHANGED << runtime, CONFIG >>

C23_LoadRefused == [][C23_RefusedStep]_vars

\* A file of a version above the current one was refused by an engine that
\* differs from it in CONFIG and in its counters.
C23_Witness ==
    /\ eng_call.op = "load"
    /\ ~eng_call.ret
    /\ ckpt.some
    /\ ckpt.version > CHECKPOINT_VERSION
    /\ ckpt.config # CONFIG
    /\ ckpt.monitor.stats.total_execs # stats.total_execs

\* ---------------------------------------------------------------------------
\* C24: an engine started with --resume-from whose checkpoint load failed
\* refuses to resume: it does not enter the fuzz loop, neither on a fresh
\* corpus nor on a resumed one, and it does not exit with status 0.
C24_RefuseToResume ==
    (resume_flag /\ eng_call = EngCall("load", FALSE, FALSE)) =>
        /\ loop_pc \in { "start", "exited" }
        /\ exit_code # Some(0)

\* ---------------------------------------------------------------------------
\* C25: the checkpoint save is atomic: when the engine has gone, also by a
\* forced exit, checkpoint.json is absent or is a complete checkpoint (the
\* previous one or the new one), never a partial file.
CompleteFile(f) == f.some /\ DOMAIN f = DOMAIN CheckpointState

C25_AtomicSave ==
    loop_pc = "exited" => (ckpt = NoFile \/ CompleteFile(ckpt))

\* ---------------------------------------------------------------------------
\* C26: over a whole campaign, across a checkpoint save and the resume from
\* it, the execution id of every crash, hang or queue artifact written is
\* greater than the id of every artifact written before: no file name is
\* used twice and no artifact is overwritten.
ArtifactIds == { f.id : f \in crash_files } \cup hang_files \cup queue_files

ArtifactWritten ==
    /\ eng_call'.op = "process_seed"
    /\ \/ stats'.saved_crashes # stats.saved_crashes
       \/ stats'.saved_hangs # stats.saved_hangs
       \/ stats'.interesting_inputs # stats.interesting_inputs

C26_WriteStep ==
    ArtifactWritten => \A id \in ArtifactIds : id < stats'.total_execs

Loaded == loop_pc = "while"

\* The Scheduler holds exactly the files of the indices in idx, one seed each,
\* and as many executions were made.
HoldsOnePer(idx) ==
    /\ stats.total_execs = Cardinality(idx)
    /\ Len(seeds) = Cardinality(idx)
    /\ \A d \in SeedFiles :
           Cardinality({ i \in idx : seed_dir.val[i] = d })
               = Cardinality({ j \in 1..Len(seeds) : seeds[j].data = d })

EmptySeedOnly ==
    /\ stats.total_execs = 0
    /\ Len(seeds) = 1
    /\ seeds[1].data = <<>>

Eligible ==
    { i \in 1..Min(Len(seed_dir.val), max_seeds) : Len(seed_dir.val[i]) <= MaxSeedSize }

AppliedTwice == fn_name = "simplify_trace" /\ Len(fn_ret) = 2

C28_Idempotent == AppliedTwice => fn_ret[2] = fn_ret[1]

\* C28 as amended: the equation holds exactly for the traces without a zero
\* byte; a zero byte becomes 1 and then 128.
NoZeroByte(x) == \A i \in 1..Len(x) : x[i] # 0

C28_IdempotentOffZero ==
    AppliedTwice => (fn_ret[2] = fn_ret[1] <=> NoZeroByte(fn_arg))

\* simplify_trace was applied twice to a trace of hit counts without a zero.
C28_Witness ==
    /\ AppliedTwice
    /\ fn_arg = << 2, 255, 1 >>
    /\ fn_ret[1] = << 128, 128, 128 >>

\* ---------------------------------------------------------------------------
\* C29: every mutation operator (bit_flip, byte_flip, arithmetic,
\* interesting_values, insert, delete, splice, havoc) called on an empty
\* input returns without raising, and what it returns is at most one byte
\* long.
OnEmpty == fn_arg.data = <<>> /\ fn_ret.pc # "running"

C29_EmptyInput ==
    OnEmpty => (fn_ret.pc = "returned" /\ Len(fn_ret.val) <= 1)

\* C29 as amended: the bound of one byte is that of the six single
\* operators; splice of an empty input with another seed returns that seed,
\* and havoc returns at most as many bytes as it made iterations.
C29_EmptyInputByOperator ==
    OnEmpty =>
        /\ fn_ret.pc = "returned"
        /\ fn_name \in SingleOps => Len(fn_ret.val) <= 1
        /\ fn_name = "splice" => fn_ret.val = fn_arg.other
        /\ fn_name = "havoc" => Len(fn_ret.val) <= fn_arg.iterations

\* insert on the empty input returned one byte.
C29_Witness ==
    /\ OnEmpty
    /\ fn_name = "insert"
    /\ fn_ret.pc = "returned"
    /\ Len(fn_ret.val) = 1

\* ---------------------------------------------------------------------------
\* C30: havoc(x, K) returns a byte string without raising, whatever
\* operators and random values are drawn, and the length of what it returns
\* differs from the length of x by at most K.
IsBytes(v) == \A k \in 1..Len(v) : v[k] \in 0..255

C30_HavocLength ==
    (fn_name = "havoc" /\ fn_ret.pc # "running") =>
        /\ fn_ret.pc = "returned"
        /\ IsBytes(fn_ret.val)
        /\ Abs(Len(fn_ret.val) - Len(fn_arg.data)) <= fn_arg.iterations

\* havoc returned an input grown by one byte in each of its two iterations,
\* and one shrunk as much.
C30_Witness ==
    /\ fn_name = "havoc"
    /\ fn_ret.pc = "returned"
    /\ fn_arg.iterations = 2
    /\ Len(fn_arg.data) = 4
    /\ Len(fn_ret.val) = 6

\* ---------------------------------------------------------------------------
\* C31: for every exec_time, coverage_bits, exec_count and averages, the
\* energy the Scheduler computes is the value of the two band tables: the
\* base of the exec-time band (at least 10 times the average: 10, at least 4
\* times: 25, at least 2 times: 50, at least 4/3: 75, at most 1/4: 300, at
\* most 1/3: 200, at most 1/2: 150, else 100), times the factor of the
\* coverage band (at least 10/3 of the average: 3, at least 2 times: 2, at
\* least 4/3: 3/2, at most 1/3: 1/4, at most 1/2: 1/2, at most 2/3: 3/4, else
\* 1), divided by 1 + 0.2 * exec_count, clamped to [1, 10000]; a value on a
\* band boundary belongs to the band the boundary names.
\* The averages the function compares with, as tt / d: the seed's own fields
\* when no seed is held, the totals over num_seeds + 1 otherwise.
EnergyDen(a) == IF a.num_seeds = 0 THEN 1 ELSE a.num_seeds + 1
EnergyAvgTime(a) == IF a.num_seeds = 0 THEN a.exec_time ELSE a.total_exec_time
EnergyAvgCov(a) == IF a.num_seeds = 0 THEN a.coverage_bits ELSE a.total_coverage

TableBase(t, tt, d) ==
    IF ~(tt > 0) THEN 100
    ELSE IF t * d >= 10 * tt THEN 10
    ELSE IF t * d >= 4 * tt THEN 25
    ELSE IF t * d >= 2 * tt THEN 50
    ELSE IF 3 * t * d >= 4 * tt THEN 75
    ELSE IF 4 * t * d <= tt THEN 300
    ELSE IF 3 * t * d <= tt THEN 200
    ELSE IF 2 * t * d <= tt THEN 150
    ELSE 100

TableFactor(c, tc, d) ==
    IF ~(tc > 0) THEN Rat(1, 1)
    ELSE IF 3 * c * d >= 10 * tc THEN Rat(3, 1)
    ELSE IF c * d >= 2 * tc THEN Rat(2, 1)
    ELSE IF 3 * c * d >= 4 * tc THEN Rat(3, 2)
    ELSE IF 3 * c * d <= tc THEN Rat(1, 4)
    ELSE IF 2 * c * d <= tc THEN Rat(1, 2)
    ELSE IF 3 * c * d <= 2 * tc THEN Rat(3, 4)
    ELSE Rat(1, 1)

TableClamp(score) ==
    IF RatLess(score, Rat(1, 1)) THEN Rat(1, 1)
    ELSE IF RatLess(Rat(10000, 1), score) THEN Rat(10000, 1)
    ELSE score

TableEnergy(a) ==
    LET f == TableFactor(a.coverage_bits, EnergyAvgCov(a), EnergyDen(a))
        base == TableBase(a.exec_time, EnergyAvgTime(a), EnergyDen(a))
    IN  TableClamp(RatMul(Rat(base * f.num, f.den), 5, 5 + a.exec_count))

C31_EnergyIsTable ==
    (fn_name = "calculate_energy" /\ fn_ret # <<>>) =>
        RatEq(fn_ret[1], TableEnergy(fn_arg))

\* ---------------------------------------------------------------------------
\* C32: timeouts are deduplicated like crashes, against virgin_tmout and the
\* hang set: with coverage a hang is saved exactly when its simplified trace
\* has new bits against virgin_tmout; without coverage it is saved exactly
\* when its fallback key is not the key of an earlier hang, the key being
\* that of crashes (stderr, or the input if stderr is empty); a duplicate
\* hang is counted in total_hangs and not saved.
\* The call a step of the Monitor processed, and the calls before it.
Processed == fn_arg' # fn_arg
ThisCall == fn_arg'[Len(fn_arg')]
EarlierHangs ==
    { fn_arg[k] : k \in { j \in 1..Len(fn_arg) :
          Classify(fn_arg[j].res) = "timeout" /\ ~fn_arg[j].res.coverage.some } }

HangSaved ==
    /\ call'.ret
    /\ stats'.saved_hangs = stats.saved_hangs + 1
    /\ hang_files' = hang_files \cup { stats'.total_execs }
HangDropped ==
    /\ ~call'.ret
    /\ stats'.saved_hangs = stats.saved_hangs
    /\ hang_files' = hang_files

\* The trace has a bit that virgin_tmout still holds.
NewAgainstTmout(trace) ==
    \E i \in 1..BitmapSize :
        BitAnd(virgin_tmout.val[i], simplify_trace(trace)[i]) # 0

CrashKey(c) == IF c.res.stderr # <<>> THEN c.res.stderr ELSE c.input
InputKey(c) == c.input

\* A hang step decided on coverage, or on the key given.
HangDedupBy(Key(_)) ==
    (Processed /\ Classify(ThisCall.res) = "timeout") =>
        /\ stats'.total_hangs = stats.total_hangs + 1
        /\ HangSaved \/ HangDropped
        /\ (virgin_tmout.some /\ ThisCall.res.coverage.some) =>
               (HangSaved <=> NewAgainstTmout(ThisCall.res.coverage.val))
        /\ ~ThisCall.res.coverage.some =>
               (HangSaved <=> \A e \in EarlierHangs : Key(e) # Key(ThisCall))

C32_HangStepCrashKey == HangDedupBy(CrashKey)
C32_HangsLikeCrashes == [][C32_HangStepCrashKey]_vars

\* C32 as the code has it: without coverage the key of a hang is the input
\* alone; stderr is not read.
C32_HangStepInputKey == HangDedupBy(InputKey)
C32_HangsByInput == [][C32_HangStepInputKey]_vars

\* Two hangs without coverage, with the same stderr and different inputs,
\* were both saved.
C32_Witness ==
    /\ Len(fn_arg) = 2
    /\ \A k \in 1..2 : /\ Classify(fn_arg[k].res) = "timeout"
                       /\ ~fn_arg[k].res.coverage.some
                       /\ fn_arg[k].res.stderr = <<83>>
    /\ fn_arg[1].input # fn_arg[2].input
    /\ fn_ret = << TRUE, TRUE >>
    /\ stats.saved_hangs = 2

\* ---------------------------------------------------------------------------
\* C33: when coverage is absent, a crash is saved if and only if its key
\* (stderr if non-empty, otherwise the input) has not been the key of an
\* earlier crash of this run: two crashes with the same non-empty stderr and
\* different inputs are saved once, two crashes with different stderr are
\* both saved.
EarlierCrashes ==
    { fn_arg[k] : k \in { j \in 1..Len(fn_arg) :
          Classify(fn_arg[j].res) = "crash" /\ ~fn_arg[j].res.coverage.some } }

CrashSaved ==
    /\ call'.ret
    /\ stats'.saved_crashes = stats.saved_crashes + 1
    /\ \E f \in crash_files' \ crash_files : f.id = stats'.total_execs
CrashDropped ==
    /\ ~call'.ret
    /\ stats'.saved_crashes = stats.saved_crashes
    /\ crash_files' = crash_files

C33_CrashStep ==
    (Processed /\ Classify(ThisCall.res) = "crash" /\ ~ThisCall.res.coverage.some) =>
        /\ CrashSaved \/ CrashDropped
        /\ CrashSaved <=> \A e \in EarlierCrashes : CrashKey(e) # CrashKey(ThisCall)

C33_CrashesByKey == [][C33_CrashStep]_vars

\* Three crashes without coverage: the second has the stderr of the first and
\* another input and was dropped, the third has another stderr and was saved.
C33_Witness ==
    /\ Len(fn_arg) = 3
    /\ \A k \in 1..3 : /\ Classify(fn_arg[k].res) = "crash"
                       /\ ~fn_arg[k].res.coverage.some
    /\ fn_arg[1].res.stderr = <<83>> /\ fn_arg[2].res.stderr = <<83>>
    /\ fn_arg[1].input # fn_arg[2].input
    /\ fn_arg[3].res.stderr = <<84>>
    /\ fn_ret = << TRUE, FALSE, TRUE >>
    /\ stats.saved_crashes = 2

\* ---------------------------------------------------------------------------
\* C34: a load at time now sets start_time to now - (saved
\* last_snapshot_time - saved start_time), so that right after the load the
\* elapsed time now - start_time the engine sees is the elapsed time of the
\* saved campaign, and the budget left is the duration minus that time.
\* A step that loads the checkpoint of the save whose elapsed time fn_arg holds.
LoadsSaved == eng_call.op = "restart" /\ eng_call'.op = "load" /\ eng_call'.ret

C34_LoadStep ==
    LoadsSaved =>
        /\ runtime'.start_time =
               now' - (ckpt.runtime.last_snapshot_time - ckpt.runtime.start_time)
        /\ now' - runtime'.start_time = fn_arg[1]

C34_ElapsedRestored == [][C34_LoadStep]_vars

\* ---------------------------------------------------------------------------
\* C35: at any point of a run, once the pause flag is set, at most one target
\* execution completes before the engine acts on it, the one in progress
\* when the flag was set; no new execution is started after the flag is set.
\* Executions completed since the one SIGINT that set the flag.
FlagSet == sigints = 1 /\ pause_requested
ExecsSinceFlag == stats.total_execs - paused_at.execs
InLoading(pc) == pc \in { "start", "load" }

C35_NoNewExecution ==
    FlagSet =>
        /\ ExecsSinceFlag <= IF paused_at.pc = "execute" THEN 1 ELSE 0
        /\ loop_pc = "execute" => paused_at.pc = "execute" /\ ExecsSinceFlag = 0

\* C35 as the code has it: a flag set in the loop lets at most one execution
\* complete, which may be one that starts after the flag when the poll came
\* before it; a flag set during initial corpus loading is not polled until
\* the loading is over, the seed files left are all executed and no mutant is.
C35_OneMoreInLoop ==
    FlagSet =>
        /\ ~InLoading(paused_at.pc) => ExecsSinceFlag <= 1
        /\ InLoading(paused_at.pc) =>
               stats.total_execs <= IF seed_dir.some
                                    THEN Min(Len(seed_dir.val), max_seeds) ELSE 0

\* The flag was set after the poll of the for loop: the mutant was executed
\* all the same, then the checkpoint was saved and the engine exited.
C35_Witness ==
    /\ FlagSet
    /\ paused_at.pc = "mutate"
    /\ ExecsSinceFlag = 1
    /\ loop_pc = "exited"
    /\ eng_call.op = "save"

\* ---------------------------------------------------------------------------
\* C36: with coverage enabled, in every reachable state, after any process
\* calls and checkpoint loads, total_coverage_bits is the number of set bits
\* of 0xFF XOR virgin_bits[i] summed over all i, which is the number of bit
\* positions of virgin_bits that are cleared.
ClearedBits(virgin) ==
    { p \in (1..Len(virgin)) \X (0..7) : (virgin[p[1]] \div (2 ^ p[2])) % 2 = 0 }

C36_CoverageCount ==
    use_coverage => stats.total_coverage_bits = Cardinality(ClearedBits(virgin_bits.val))

\* A new run has loaded a checkpoint that holds coverage.
C36_Witness ==
    /\ use_coverage
    /\ eng_call.op = "load"
    /\ eng_call.ret
    /\ stats.total_coverage_bits > 0

\* ---------------------------------------------------------------------------
\* C37: an input longer than max_seed_size is neither executed nor handed to
\* the Monitor nor pushed to the Scheduler, and in every reachable state,
\* after a checkpoint load too, every seed the Scheduler holds has a data
\* length of at most max_seed_size.
SeedsWithinSize ==
    \A k \in 1..Len(seeds) : Len(seeds[k].data) <= CONFIG.max_seed_size

\* A _process_seed step on an input over the limit: no execution (the clock
\* and the Monitor stand still), no push, and False is returned.
OversizedStep ==
    (fn_arg' # fn_arg /\ Len(fn_arg'[Len(fn_arg')]) > CONFIG.max_seed_size) =>
        /\ UNCHANGED << monVars, schedVars, now >>
        /\ ~fn_ret'[Len(fn_ret')]

C37_SizeLimit == [](SeedsWithinSize) /\ [][OversizedStep]_vars

\* An oversized input was refused, a seed of the full size is held, and the
\* run restarted with a smaller limit has loaded both the seed and the limit.
C37_Witness ==
    /\ \E k \in 1..Len(fn_arg) : fn_arg[k] = Oversized /\ ~fn_ret[k]
    /\ eng_call.op = "load"
    /\ eng_call.ret
    /\ CONFIG.max_seed_size = MaxSeedSize
    /\ \E k \in 1..Len(seeds) : Len(seeds[k].data) > OtherSeedSize

\* ---------------------------------------------------------------------------
\* C38: every Monitor process call increments total_execs by exactly 1 and
\* returns true if and only if that call incremented exactly one of
\* saved_crashes, saved_hangs and interesting_inputs (by one, the other two
\* unchanged); a call that returns false saves nothing.
SavedBy(field) == stats'[field] - stats[field]
SavedInCall ==
    SavedBy("saved_crashes") + SavedBy("saved_hangs") + SavedBy("interesting_inputs")

C38_ProcessStep ==
    (stats' # stats \/ call' # call) =>
        /\ stats'.total_execs = stats.total_execs + 1
        /\ \A f \in { "saved_crashes", "saved_hangs", "interesting_inputs" } :
               SavedBy(f) \in { 0, 1 }
        /\ call'.ret <=> SavedInCall = 1
        /\ ~call'.ret =>
               /\ SavedInCall = 0
               /\ crash_files' = crash_files
               /\ hang_files' = hang_files
               /\ queue_files' = queue_files

C38_OneCountPerCall == [][C38_ProcessStep]_vars

\* Three calls: a new crash, new coverage, and a call that returned false.
C38_Witness ==
    /\ stats.total_execs = 3
    /\ stats.saved_crashes = 1
    /\ stats.interesting_inputs = 1
    /\ stats.saved_hangs = 0
    /\ call.op = "process"
    /\ ~call.ret

\* ---------------------------------------------------------------------------
\* C39: when the run is not resumed from a checkpoint, the Scheduler holds at
\* least one seed when the initial corpus loading returns, whatever the seed
\* directory holds, so that the first select_next of the loop returns a seed.
C39_SeedAfterLoading ==
    (Loaded /\ ~resume_flag) => Len(seeds) >= 1

\* ---------------------------------------------------------------------------
\* C40: deduplication survives the checkpoint round trip: a crash or hang
\* that the Monitor would drop as a duplicate just before the save (it was
\* already processed in the saved run) is dropped too when it is processed
\* just after the checkpoint is loaded, with virgin_crash / virgin_tmout as
\* with the fallback hash sets.
JustAfterLoad == eng_call.op = "load" /\ eng_call.ret
SeenBeforeSave == \E k \in 1..Len(fn_arg) : fn_arg[k] = ThisCall

C40_RoundTripStep ==
    (JustAfterLoad /\ Processed /\ Classify(ThisCall.res) \in { "crash", "timeout" }
        /\ SeenBeforeSave) => ~call'.ret

C40_DedupSurvives == [][C40_RoundTripStep]_vars

====
